---- MODULE Spec2Model ----
(***************************************************************************)
(* The agent orchestration runtime of src-python: the session store, the   *)
(* HTTP entry point /api/agent, GradientAgent.run_async and the bounded    *)
(* loop GradientAgent._process_message with its tool calls and sub-agent   *)
(* delegations, for the agent graph built in agent.py and agents/*.py.     *)
(*                                                                         *)
(* Texts are TLA+ strings and are built as the code builds them (f-strings *)
(* are concatenations).  json.loads is the parse of the raw texts the      *)
(* modelled backend can produce.  One external call runs at a time in the  *)
(* main specification Spec; SpecPrompt, SpecStore and SpecConcurrent look   *)
(* at the prompt builder, the session store and two overlapping calls.     *)
(***************************************************************************)
EXTENDS Naturals, Sequences, FiniteSets, TLC

VARIABLES
    sessions,    \* SessionService.sessions: key -> Session
    session,     \* the Session object run_async works on
    stack,       \* active _process_message invocations, outermost first
    pc,          \* "idle" | "loop" | "awaiting" | "dispatch" | "executing" | "ret"
    ret,         \* what the innermost invocation returns or raises
    outcome,     \* what the last external call gave its HTTP caller
    request,     \* the external call in progress (or the last one)
    calls,       \* backend calls made during the current external call
    toolExecs,   \* Tool.execute calls made during the current external call
    delegs,      \* sub-agent loops started during the current external call
    inflight,    \* backend calls and tool executions started and not yet returned
    nreq,        \* external calls started so far
    freeLeft,    \* replies the scripted backend may still choose freely
    lastReply,   \* the backend's latest reply (repeated once the script ends)
    firstReply,  \* history: reply to the first backend call of the external call
    histBefore,  \* history: the stored session's history when the call began
    lastOk,      \* history: the previous successful external call
    lastExec,    \* history: the latest Tool.execute call and what came of it
    cfg,         \* SpecPrompt: instruction, tools and sub-agents of an agent
    prompt,      \* SpecPrompt: what _build_system_prompt built for cfg
    svc,         \* SpecStore, SpecConcurrent: a SessionService's sessions
    oplog,       \* SpecStore: the calls made on the store, oldest first
    lastOp,      \* SpecStore: the latest call and what it returned
    tasks,       \* SpecConcurrent: the external calls in progress
    replySet,    \* the texts the scripted backend chooses its replies from
    fnIn,        \* SpecAdapter, SpecSchema: the argument of the function applied
    fnOut,       \* SpecAdapter, SpecSchema: what the function returned
    coordTools,  \* SpecReload: Coordinator.tools
    coordMap,    \* SpecReload: Coordinator.tools_map, the names it dispatches
    reload,      \* SpecReload: reload_tadata_integration_async in progress
    seen,        \* SpecReload: the tool list a running loop read last
    lists,       \* SpecReload: history, the tool lists before and after reloads
    docs,        \* SpecDocs: TinyStore.docs, the documents in memory
    table,       \* SpecDocs: the rows of the documents table, by id
    conn         \* SpecConnect: the Tadata client and the tasks that use it

main == <<sessions, session, stack, pc, ret, outcome, request, calls,
          toolExecs, delegs, inflight, nreq, freeLeft, lastReply, firstReply,
          histBefore, lastOk, lastExec>>

ext == <<replySet, fnIn, fnOut, coordTools, coordMap, reload, seen, lists,
         docs, table, conn>>

aux == <<cfg, prompt, svc, oplog, lastOp, tasks, ext>>

vars == <<main, aux>>

-----------------------------------------------------------------------------
(* Bounds of the model *)

\* external calls in one run
MaxRequests == 2
\* backend replies chosen freely; afterwards the backend repeats its last reply
MaxScript == 2

(* Program constants *)

\* gradient_agent.py:292
MaxIterations == 10

-----------------------------------------------------------------------------
(* Inputs *)

SessionIds == {"s1", "s2"}
\* request.message values; the second has surrounding blanks
UserTexts == {"hello", " bye "}

AppName == "arrow_agent"
UserId == "default_user"

None == [kind |-> "none"]

-----------------------------------------------------------------------------
(* Message and Session *)

Message(role, content) == [role |-> role, content |-> content]

NewSession(app, user, sid) ==
    [session_id |-> sid, user_id |-> user, app_name |-> app, history |-> <<>>]

AddMessage(s, role, content) ==
    [s EXCEPT !.history = Append(@, Message(role, content))]

GetMessagesDict(s) == s.history

(* SessionService *)

SessionKey(app, user, sid) == app \o ":" \o user \o ":" \o sid

\* variant: an existing entry is kept
CreateSessionKeepsExisting(store, app, user, sid) ==
    LET k == SessionKey(app, user, sid)
    IN  [x \in DOMAIN store \cup {k} |->
            IF x \in DOMAIN store THEN store[x] ELSE NewSession(app, user, sid)]

\* create_session, lines 50-55
CreateSession(store, app, user, sid) ==
    LET k == SessionKey(app, user, sid)
    IN  [x \in DOMAIN store \cup {k} |->
            IF x = k THEN NewSession(app, user, sid) ELSE store[x]]

GetSession(store, app, user, sid) ==
    LET k == SessionKey(app, user, sid)
    IN  IF k \in DOMAIN store THEN store[k] ELSE None

DeleteSession(store, app, user, sid) ==
    LET k == SessionKey(app, user, sid)
    IN  [x \in DOMAIN store \ {k} |-> store[x]]

-----------------------------------------------------------------------------
(* The agent graph: agent.py, agents/coordinator.py, agents/summarize.py,  *)
(* agents/terminal_cmd.py.  Instructions are abbreviated.                  *)

RootAgent == "arrow_agent"

AgentNames == {"arrow_agent", "PointerCoordinator", "Summarizer", "TerminalCmdGen"}

Instruction(a) ==
    CASE a = "arrow_agent" -> "Intelligent AI assistant with knowledge base capabilities."
      [] a = "PointerCoordinator" -> "YOU MUST USE TOOLS DIRECTLY."
      [] a = "Summarizer" -> "Crisp summarizer."
      [] a = "TerminalCmdGen" -> "Output ONLY the raw command."

Description(a) ==
    CASE a = "arrow_agent" -> "Multi-tool AI agent with context (image/video/text) + keyboard input."
      [] a = "PointerCoordinator" -> "Routes commands to tools."
      [] a = "Summarizer" -> "Summarizes text, images, or documents."
      [] a = "TerminalCmdGen" -> "Generates safe terminal commands for tasks."

ToolDef(name, description) == [name |-> name, description |-> description]

\* The Coordinator's tools, in registration order.  The calendar, email and
\* vision tools are defined outside src/; their names are those the
\* Coordinator's instruction uses.
CoordinatorTools ==
    << ToolDef("add_to_calendar", "Add an event to the calendar"),
       ToolDef("send_email", "Send an email"),
       ToolDef("rag_add", "Add a document to the knowledge base"),
       ToolDef("rag_query", "Query the knowledge base"),
       ToolDef("attach_context", "Attach context"),
       ToolDef("list_context_help", "List context help"),
       ToolDef("notion_search", "Search your Notion workspace for pages and databases."),
       ToolDef("supabase_query", "Query a Supabase table"),
       ToolDef("exa_search", "Search the web with Exa") >>

Tools(a) == IF a = "PointerCoordinator" THEN CoordinatorTools ELSE <<>>

\* variant: a sub-agent of the Coordinator lists itself
SubAgentsCyclic(a) ==
    CASE a = "arrow_agent" -> <<"PointerCoordinator">>
      [] a = "PointerCoordinator" -> <<"Summarizer", "TerminalCmdGen">>
      [] a = "Summarizer" -> <<"Summarizer">>
      [] OTHER -> <<>>

SubAgents(a) ==
    CASE a = "arrow_agent" -> <<"PointerCoordinator">>
      [] a = "PointerCoordinator" -> <<"Summarizer", "TerminalCmdGen">>
      [] OTHER -> <<>>

\* GradientAgent.__init__: tools_map = {tool.name: tool for tool in self.tools}
ToolsMap(a) == {Tools(a)[i].name : i \in DOMAIN Tools(a)}

\* line 177 and line 183: one entry
EntryLine(name, description) == "- " \o name \o ": " \o description \o "\n"

\* lines 176-177: what the loop over self.tools appends, in order
RECURSIVE ToolLines(_)
ToolLines(ts) ==
    IF ts = <<>> THEN <<>>
    ELSE <<EntryLine(Head(ts).name, Head(ts).description)>> \o ToolLines(Tail(ts))

\* lines 182-183: what the loop over self.sub_agents appends, in order
RECURSIVE AgentLines(_)
AgentLines(as) ==
    IF as = <<>> THEN <<>>
    ELSE <<EntryLine(Head(as), Description(Head(as)))>> \o AgentLines(Tail(as))

\* variant: both section headers are always written
PromptPartsAllSections(instruction, tools, subs) ==
    <<instruction \o "\n\n">>
    \o <<"AVAILABLE TOOLS:\n">> \o ToolLines(tools) \o <<"\n">>
    \o <<"AVAILABLE SUB-AGENTS:\n">> \o AgentLines(subs) \o <<"\n">>

\* _build_system_prompt: the texts appended to prompt, one per "+="
PromptParts(instruction, tools, subs) ==
    <<instruction \o "\n\n">>
    \o (IF tools # <<>>
        THEN <<"AVAILABLE TOOLS:\n">> \o ToolLines(tools) \o <<"\n">> ELSE <<>>)
    \o (IF subs # <<>>
        THEN <<"AVAILABLE SUB-AGENTS:\n">> \o AgentLines(subs) \o <<"\n">> ELSE <<>>)

\* the string the appends make
RECURSIVE Concat(_)
Concat(parts) ==
    IF parts = <<>> THEN "" ELSE Head(parts) \o Concat(Tail(parts))

BuildSystemPrompt(a) == Concat(PromptParts(Instruction(a), Tools(a), SubAgents(a)))

-----------------------------------------------------------------------------
(* The backend's replies: raw texts returned by _call_gradient *)

ReplyHello == "Hello world"
ReplyRagQuery == "{\"tool\": \"rag_query\", \"arguments\": {\"query\": \"x\"}}"
ReplyBogus == "{\"tool\": \"bogus\"}"
ReplyCoordinator == "{\"agent\": \"PointerCoordinator\", \"message\": \"do it\"}"
ReplySummarizer == "{\"agent\": \"Summarizer\", \"message\": \"summarize X\"}"
ReplyRagAdd == "{\"tool\": \"rag_add\"}"
ReplyNumber == "42"
ReplyArray == "[\"a\"]"

Replies == {ReplyHello, ReplyRagQuery, ReplyBogus, ReplyCoordinator,
            ReplySummarizer, ReplyRagAdd, ReplyNumber, ReplyArray}

\* objects with fields of other JSON types, with both keys, with neither
\* key, without the optional fields
ReplyToolList == "{\"tool\": [\"rag_query\"]}"
ReplyArgsText == "{\"tool\": \"rag_query\", \"arguments\": \"x\"}"
ReplyAgentNumber == "{\"agent\": 7}"
ReplyPlainObject == "{\"answer\":\"hi\"}"
ReplyBoth == "{\"tool\": \"rag_query\", \"agent\": \"Summarizer\"}"
ReplyNoMessage == "{\"agent\": \"Summarizer\"}"

EnvelopeReplies == {ReplyCoordinator, ReplyRagAdd, ReplyToolList, ReplyArgsText,
                    ReplyAgentNumber, ReplyPlainObject, ReplyBoth, ReplyNoMessage}

AllReplies == Replies \cup EnvelopeReplies

\* _call_gradient raising: a transport error or raise_for_status()
BackendDown == "<no reply>"
BackendErrorText == "Server error '503 Service Unavailable'"

\* What the backend can do on its next call: anything while the script
\* lasts, its last behaviour again afterwards.
BackendChoices == IF freeLeft > 0 THEN replySet \cup {BackendDown} ELSE {lastReply}

(* json.loads on these texts *)
JsonLoads(raw) ==
    CASE raw = ReplyHello ->
            [ok |-> FALSE]
      [] raw = ReplyRagQuery ->
            [ok |-> TRUE, type |-> "object",
             val |-> [tool |-> "rag_query", arguments |-> [query |-> "x"]]]
      [] raw = ReplyBogus ->
            [ok |-> TRUE, type |-> "object", val |-> [tool |-> "bogus"]]
      [] raw = ReplyCoordinator ->
            [ok |-> TRUE, type |-> "object",
             val |-> [agent |-> "PointerCoordinator", message |-> "do it"]]
      [] raw = ReplySummarizer ->
            [ok |-> TRUE, type |-> "object",
             val |-> [agent |-> "Summarizer", message |-> "summarize X"]]
      [] raw = ReplyRagAdd ->
            [ok |-> TRUE, type |-> "object", val |-> [tool |-> "rag_add"]]
      [] raw = ReplyNumber ->
            [ok |-> TRUE, type |-> "number", val |-> 42]
      [] raw = ReplyArray ->
            [ok |-> TRUE, type |-> "array", val |-> <<"a">>]
      [] raw = ReplyToolList ->
            [ok |-> TRUE, type |-> "object", val |-> [tool |-> "['rag_query']"],
             odd |-> [tool |-> "array"]]
      [] raw = ReplyArgsText ->
            [ok |-> TRUE, type |-> "object",
             val |-> [tool |-> "rag_query", arguments |-> "x"],
             odd |-> [arguments |-> "string"]]
      [] raw = ReplyAgentNumber ->
            [ok |-> TRUE, type |-> "object", val |-> [agent |-> "7"],
             odd |-> [agent |-> "number"]]
      [] raw = ReplyPlainObject ->
            [ok |-> TRUE, type |-> "object", val |-> [answer |-> "hi"]]
      [] raw = ReplyBoth ->
            [ok |-> TRUE, type |-> "object",
             val |-> [tool |-> "rag_query", agent |-> "Summarizer"]]
      [] raw = ReplyNoMessage ->
            [ok |-> TRUE, type |-> "object", val |-> [agent |-> "Summarizer"]]

\* The JSON type of a field of a parsed object.  Fields hold strings, and
\* "arguments" an object, unless the parse says otherwise; a field of another
\* type is carried as the text str() gives for it.
FieldType(parsed, key) ==
    IF "odd" \in DOMAIN parsed /\ key \in DOMAIN parsed.odd THEN parsed.odd[key]
    ELSE IF key = "arguments" THEN "object"
    ELSE "string"

\* Python can hash strings, numbers, booleans and None, not lists and dicts
Hashable(type) == type \notin {"array", "object"}

PyTypeName(type) ==
    CASE type = "string" -> "str"
      [] type = "array" -> "list"
      [] type = "object" -> "dict"
      [] type = "number" -> "int"
      [] type = "boolean" -> "bool"
      [] type = "null" -> "NoneType"

\* an "arguments" value that is no JSON object
NotAMapping(type) == [pytype |-> PyTypeName(type)]
IsMapping(arguments) == "pytype" \notin DOMAIN arguments

\* Python's  key in v  for a parsed JSON value v
PyContains(key, v) ==
    CASE v.type = "object" -> [raised |-> FALSE, val |-> key \in DOMAIN v.val]
      [] v.type = "array" ->
            [raised |-> FALSE, val |-> \E i \in DOMAIN v.val : v.val[i] = key]
      [] v.type = "number" ->
            [raised |-> TRUE, text |-> "argument of type 'int' is not iterable"]
      [] v.type = "boolean" ->
            [raised |-> TRUE, text |-> "argument of type 'bool' is not iterable"]
      [] v.type = "null" ->
            [raised |-> TRUE, text |-> "argument of type 'NoneType' is not iterable"]

\* Python's  v[key]  and  v.get(key, default)
PyIndexable(v) == v.type = "object"

DictGet(d, key, default) == IF key \in DOMAIN d THEN d[key] ELSE default

\* variant: a default that is not empty
EmptyDictFilled == [k \in {"query"} |-> ""]

\* the {} of response_data.get("arguments", {})
EmptyDict == [k \in {} |-> ""]

\* _process_message, lines 306-330: the parsed value decides
InterpretParsed(parsed) ==
    LET hasTool == PyContains("tool", parsed)
    IN  IF hasTool.raised
        THEN [kind |-> "raise", text |-> hasTool.text]
        ELSE IF hasTool.val
        THEN IF PyIndexable(parsed)
             THEN IF ~Hashable(FieldType(parsed, "tool"))
                  \* line 254: tool_name not in self.tools_map
                  THEN [kind |-> "raise",
                        text |-> "unhashable type: '"
                                 \o PyTypeName(FieldType(parsed, "tool")) \o "'"]
                  ELSE [kind |-> "tool", name |-> parsed.val["tool"],
                        arguments |->
                            IF FieldType(parsed, "arguments") = "object"
                            THEN DictGet(parsed.val, "arguments", EmptyDict)
                            ELSE NotAMapping(FieldType(parsed, "arguments"))]
             ELSE [kind |-> "raise",
                   text |-> "list indices must be integers or slices, not str"]
        ELSE LET hasAgent == PyContains("agent", parsed)
             IN  IF hasAgent.raised
                 THEN [kind |-> "raise", text |-> hasAgent.text]
                 ELSE IF hasAgent.val
                 THEN IF PyIndexable(parsed)
                      THEN [kind |-> "agent", name |-> parsed.val["agent"],
                            message |-> DictGet(parsed.val, "message", "")]
                      ELSE [kind |-> "raise",
                            text |-> "list indices must be integers or slices, not str"]
                 ELSE [kind |-> "final"]

\* a loop without the except clause: the JSONDecodeError leaves it
InterpretUncaught(raw) ==
    IF ~JsonLoads(raw).ok
    THEN [kind |-> "raise", text |-> "Expecting value: line 1 column 1 (char 0)"]
    ELSE InterpretParsed(JsonLoads(raw))

\* _process_message, lines 302-337: what one raw reply makes the loop do;
\* json.JSONDecodeError is the only exception caught (line 332)
Interpret(raw) ==
    IF ~JsonLoads(raw).ok THEN [kind |-> "final"]
    ELSE InterpretParsed(JsonLoads(raw))

-----------------------------------------------------------------------------
(* Tools *)

\* the signatures of the tool functions defined under src/tools
Required(tool) ==
    CASE tool = "rag_add" -> {"id", "text"}
      [] tool = "rag_query" -> {"query"}
      [] tool = "notion_search" -> {"query"}
      [] tool = "supabase_query" -> {"table"}
      [] tool = "exa_search" -> {"query"}
      [] OTHER -> {}

\* the TypeError of a call that lacks required arguments
MissingArgumentsText(tool, missing) ==
    IF Cardinality(missing) = 1
    THEN tool \o "() missing 1 required positional argument: '"
         \o (CHOOSE m \in missing : TRUE) \o "'"
    ELSE IF tool = "rag_add" /\ missing = {"id", "text"}
    THEN "rag_add() missing 2 required positional arguments: 'id' and 'text'"
    ELSE tool \o "() missing required positional arguments"

\* line 259, ** applied to a value that is no dict
NotMappingText(arguments) ==
    "gradient_agent.Tool.execute() argument after ** must be a mapping, not "
    \o arguments.pytype

\* tool.execute(**arguments): the function's text, or the exception the
\* call raises (execute has no handler of its own)
ToolExecute(tool, arguments) ==
    IF ~IsMapping(arguments)
    THEN [raised |-> TRUE, text |-> NotMappingText(arguments)]
    ELSE IF ~(Required(tool) \subseteq DOMAIN arguments)
    THEN [raised |-> TRUE,
          text |-> MissingArgumentsText(tool, Required(tool) \ DOMAIN arguments)]
    ELSE IF tool = "rag_query"
    THEN [raised |-> FALSE, text |-> "{'matches': []}"]
    ELSE [raised |-> FALSE, text |-> "ok"]

ToolNotFoundText(toolName) == "Error: Tool '" \o toolName \o "' not found"

\* _handle_tool_call, line 263
ToolErrorText(message) == "Error executing tool: " \o message

\* variant: no lookup before the tool is used
ToolRegisteredAlways(a, toolName) == TRUE

ToolRegistered(a, toolName) == toolName \in ToolsMap(a)

\* variant: a handler without the except clause
ToolCallCatchesNothing(r) == FALSE

\* _handle_tool_call, line 261: except Exception
ToolCallCatches(r) == r.raised

\* _handle_tool_call: the text it returns, or the exception that leaves it
HandleToolCall(a, toolName, arguments) ==
    IF ~ToolRegistered(a, toolName)
    THEN [executed |-> FALSE, raised |-> FALSE, text |-> ToolNotFoundText(toolName)]
    ELSE LET r == ToolExecute(toolName, arguments)
         IN  IF r.raised
             THEN IF ToolCallCatches(r)
                  THEN [executed |-> TRUE, raised |-> FALSE, text |-> ToolErrorText(r.text)]
                  ELSE [executed |-> TRUE, raised |-> TRUE, text |-> r.text]
             ELSE [executed |-> TRUE, raised |-> FALSE, text |-> r.text]

\* variant: any name is taken for a sub-agent
FindSubAgentAny(a, agentName) == [found |-> TRUE, agent |-> agentName]

\* next((a for a in self.sub_agents if a.name == agent_name), None)
FindSubAgent(a, agentName) ==
    IF \E i \in DOMAIN SubAgents(a) : SubAgents(a)[i] = agentName
    THEN [found |-> TRUE, agent |-> agentName]
    ELSE [found |-> FALSE]

AgentNotFoundText(agentName) == "Error: Sub-agent '" \o agentName \o "' not found"

-----------------------------------------------------------------------------
(* run_async and the route *)

\* str.strip() on the texts run_async builds (each part's text plus " ")
Strip(t) ==
    CASE t = "hello " -> "hello"
      [] t = " bye  " -> "bye"

\* run_async, lines 353-360, for new_message = {"content": {"parts": [{"text": text}]}}
MessageText(text) == Strip("" \o text \o " ")

\* routes/agent.py:178
ResponseBody(responseText) ==
    IF responseText = "" THEN "No response generated" ELSE responseText

\* run_async, line 364: the session the loop is given
RunSession(store, agentName, user, sid) == NewSession(agentName, user, sid)

(* _process_message *)

MaxIterationsText == "Error: Maximum iterations reached"

\* lines 282-290
SeedMessages(a, message, s) ==
    <<Message("system", BuildSystemPrompt(a))>>
        \o GetMessagesDict(s)
        \o <<Message("user", message)>>

\* sent is the list handed to the latest _call_gradient of the invocation
NewFrame(a, message, s) ==
    [agent |-> a, messages |-> SeedMessages(a, message, s),
     iteration |-> 0, ncalls |-> 0, response |-> "", sent |-> <<>>]

\* variant: the guard off by one
LoopGuardInclusive(iteration) == iteration <= MaxIterations

\* line 295
LoopGuard(iteration) == iteration < MaxIterations

\* variant: only the result is appended
ToolFeedbackResultOnly(messages, response, toolResult) ==
    messages \o <<Message("user", "Tool result: " \o toolResult)>>

\* lines 315-316
ToolFeedback(messages, response, toolResult) ==
    messages \o <<Message("assistant", response),
                  Message("user", "Tool result: " \o toolResult)>>

\* lines 328-329
AgentFeedback(messages, response, agentResult) ==
    messages \o <<Message("assistant", response),
                  Message("user", "Sub-agent result: " \o agentResult)>>

\* variant: the handler lets backend errors through
DelegationCatchesOthers(r) == r.kind = "exc" /\ r.cause # "backend"

\* _handle_agent_delegation, line 275: except Exception
DelegationCatches(r) == r.kind = "exc"

\* _handle_agent_delegation, lines 271-277: the text handed to the parent
DelegationResult(r) ==
    IF r.kind = "value" THEN r.text
    ELSE "Error delegating to sub-agent: " \o r.text

Value(text, cause) == [kind |-> "value", text |-> text, cause |-> cause]
Raised(text, cause) == [kind |-> "exc", text |-> text, cause |-> cause]

\* the nesting of _process_message calls that is explored
MaxDepth == 4

Top == stack[Len(stack)]
SetTop(f) == [stack EXCEPT ![Len(stack)] = f]

-----------------------------------------------------------------------------
EmptyStore == [k \in {} |-> None]

env == <<freeLeft, lastReply>>
counters == <<calls, toolExecs, delegs, inflight>>
history == <<firstReply, histBefore, lastOk, lastExec>>

(* tools/tadata.py: the client of the Tadata MCP servers *)

\* the servers whose tool names the Coordinator's instruction gives
Servers == {"notion", "exa"}

\* TadataMCPClient.__init__, lines 17-21, before any configuration is read
ClientNew ==
    [kind |-> "client", pc |-> "idle", servers |-> {}, tools |-> <<>>,
     connected |-> FALSE, before |-> <<>>, done |-> 0,
     last |-> <<>>, lastServers |-> {}]

\* _connect_all, lines 100-146: the tools of one server, as GradientTools
ServerTools(server) ==
    CASE server = "notion" ->
           << ToolDef("notion_notion-search", "Search the Notion workspace"),
              ToolDef("notion_notion-fetch", "Fetch a Notion page") >>
      [] server = "exa" ->
           << ToolDef("exa_web_search_exa", "Search the web") >>

\* the tools of one server under names of the server's own choosing
OwnNameTools(server) ==
    CASE server = "notion" -> << ToolDef("fetch", "Fetch a page") >>
      [] server = "exa" -> << ToolDef("web_search", "Search the web") >>

\* the tools of all configured servers, under names of their own
FetchedOwnNames(servers) ==
    (IF "notion" \in servers THEN OwnNameTools("notion") ELSE <<>>)
    \o (IF "exa" \in servers THEN OwnNameTools("exa") ELSE <<>>)

\* the tools of all configured servers
FetchedTools(servers) ==
    (IF "notion" \in servers THEN ServerTools("notion") ELSE <<>>)
    \o (IF "exa" \in servers THEN ServerTools("exa") ELSE <<>>)

\* lines 214-217: the name contains 'notion', 'exa', 'supabase' or 'tadata'
NamesAServer(name) ==
    name \in {"notion_search", "supabase_query", "exa_search",
              "notion_notion-search", "notion_notion-fetch", "exa_web_search_exa"}

\* lines 212-218: the list without the tools whose name names a server
RECURSIVE RemoveDynamic(_)
RemoveDynamic(ts) ==
    IF ts = <<>> THEN <<>>
    ELSE IF NamesAServer(Head(ts).name) THEN RemoveDynamic(Tail(ts))
         ELSE <<Head(ts)>> \o RemoveDynamic(Tail(ts))

MaxProbes == 2

\* the client and the tasks that call ensure_connected: servers is the
\* configuration read last, fetches counts the get_tools calls begun since
\* the latest reload(), callers maps a task to where it stands (task 0 is
\* the reload, the others are requests to /api/debug/test-tadata)
ConnNew ==
    [kind |-> "conn", servers |-> {}, tools |-> <<>>, connected |-> FALSE,
     hasClient |-> FALSE, fetches |-> 0, reloads |-> 0,
     callers |-> [t \in 0..MaxProbes |-> "idle"]]

\* no external call is active and none has left a trace
RunIdle ==
    /\ sessions = EmptyStore
    /\ session = None
    /\ stack = <<>>
    /\ pc = "idle"
    /\ ret = None
    /\ outcome = None
    /\ request = None
    /\ calls = 0
    /\ toolExecs = 0
    /\ delegs = 0
    /\ inflight = 0
    /\ freeLeft = MaxScript
    /\ lastReply = BackendDown
    /\ firstReply = ""
    /\ histBefore = <<>>
    /\ lastOk = None
    /\ lastExec = None

MainInit == RunIdle /\ nreq = 0

PromptIdle == cfg = None /\ prompt = None
StoreIdle == svc = EmptyStore /\ oplog = <<>> /\ lastOp = None
TasksIdle == tasks = <<>>
PureIdle == fnIn = None /\ fnOut = None
ReloadIdle ==
    /\ coordTools = Tools("PointerCoordinator")
    /\ coordMap = ToolsMap("PointerCoordinator")
    /\ reload = ClientNew
    /\ seen = <<>>
    /\ lists = <<Tools("PointerCoordinator")>>
\* TinyStore on an empty database (rag.py lines 51-58); the Tadata client as
\* get_tadata_integration builds it
StoresIdle == docs = <<>> /\ table = EmptyStore /\ conn = ConnNew

ExtIdle == replySet = Replies /\ PureIdle /\ ReloadIdle /\ StoresIdle

Init == MainInit /\ PromptIdle /\ StoreIdle /\ TasksIdle /\ ExtIdle

\* routes/agent.py process_agent_request up to the loop's first backend call:
\* get or create the stored session, then run_async creates its Session,
\* adds the user message and enters _process_message.
StartRequest(sid, text) ==
    /\ pc = "idle"
    /\ nreq < MaxRequests
    /\ LET got == GetSession(sessions, AppName, UserId, sid)
           store == IF got = None
                    THEN CreateSession(sessions, AppName, UserId, sid)
                    ELSE sessions
           msg == MessageText(text)
           s == AddMessage(RunSession(store, RootAgent, UserId, sid), "user", msg)
       IN  /\ sessions' = store
           /\ histBefore' = store[SessionKey(AppName, UserId, sid)].history
           /\ session' = s
           /\ stack' = <<NewFrame(RootAgent, msg, s)>>
           /\ request' = [kind |-> "request", sid |-> sid, text |-> text, message |-> msg]
    /\ pc' = "loop"
    /\ ret' = None
    /\ outcome' = None
    /\ calls' = 0
    /\ toolExecs' = 0
    /\ delegs' = 0
    /\ inflight' = 0
    /\ nreq' = nreq + 1
    /\ firstReply' = ""
    /\ lastExec' = None
    /\ UNCHANGED <<freeLeft, lastReply, lastOk>>
    /\ UNCHANGED aux

\* the scripted backend moves on
Scripted(r) ==
    /\ r \in BackendChoices
    /\ freeLeft' = IF freeLeft > 0 THEN freeLeft - 1 ELSE 0
    /\ lastReply' = r

\* lines 295-299: one more iteration, _call_gradient is awaited
CallGradientStart ==
    /\ pc = "loop"
    /\ LoopGuard(Top.iteration)
    /\ stack' = SetTop([Top EXCEPT !.iteration = @ + 1, !.ncalls = @ + 1,
                                   !.sent = Top.messages])
    /\ calls' = calls + 1
    /\ inflight' = inflight + 1
    /\ pc' = "awaiting"
    /\ UNCHANGED <<sessions, session, ret, outcome, request, toolExecs, delegs,
                   nreq, env, history>>
    /\ UNCHANGED aux

\* line 299: the backend answers
CallGradientReturns(r) ==
    /\ pc = "awaiting"
    /\ r # BackendDown
    /\ Scripted(r)
    /\ stack' = SetTop([Top EXCEPT !.response = r])
    /\ inflight' = inflight - 1
    /\ firstReply' = IF calls = 1 THEN r ELSE firstReply
    /\ pc' = "dispatch"
    /\ UNCHANGED <<sessions, session, ret, outcome, request, calls, toolExecs,
                   delegs, nreq, histBefore, lastOk, lastExec>>
    /\ UNCHANGED aux

\* line 299 with _call_gradient raising (lines 248-250)
CallGradientRaises ==
    /\ pc = "awaiting"
    /\ Scripted(BackendDown)
    /\ inflight' = inflight - 1
    /\ firstReply' = IF calls = 1 THEN BackendDown ELSE firstReply
    /\ ret' = Raised(BackendErrorText, "backend")
    /\ pc' = "ret"
    /\ UNCHANGED <<sessions, session, stack, outcome, request, calls, toolExecs,
                   delegs, nreq, histBefore, lastOk, lastExec>>
    /\ UNCHANGED aux

\* variant: the cap is reported by raising
LoopExhaustedRaises ==
    /\ pc = "loop"
    /\ ~LoopGuard(Top.iteration)
    /\ ret' = Raised(MaxIterationsText, "exhausted")
    /\ pc' = "ret"
    /\ UNCHANGED <<sessions, session, stack, outcome, request, nreq, counters,
                   env, history>>
    /\ UNCHANGED aux

\* line 339
LoopExhausted ==
    /\ pc = "loop"
    /\ ~LoopGuard(Top.iteration)
    /\ ret' = Value(MaxIterationsText, "exhausted")
    /\ pc' = "ret"
    /\ UNCHANGED <<sessions, session, stack, outcome, request, nreq, counters,
                   env, history>>
    /\ UNCHANGED aux

\* json.dumps(json.loads(raw))
JsonDumps(raw) ==
    IF raw = ReplyPlainObject THEN "{\"answer\": \"hi\"}" ELSE raw

\* variant: the answer is the parsed value serialised again
DispatchFinalSerialised ==
    /\ pc = "dispatch"
    /\ Interpret(Top.response).kind = "final"
    /\ ret' = Value(JsonDumps(Top.response), "final")
    /\ pc' = "ret"
    /\ UNCHANGED <<sessions, session, stack, outcome, request, nreq, counters,
                   env, history>>
    /\ UNCHANGED aux

\* lines 302-305, 332-337: the reply is the final answer
DispatchFinal ==
    /\ pc = "dispatch"
    /\ Interpret(Top.response).kind = "final"
    /\ ret' = Value(Top.response, "final")
    /\ pc' = "ret"
    /\ UNCHANGED <<sessions, session, stack, outcome, request, nreq, counters,
                   env, history>>
    /\ UNCHANGED aux

\* lines 304-321: an exception other than JSONDecodeError leaves the loop
DispatchRaises ==
    /\ pc = "dispatch"
    /\ Interpret(Top.response).kind = "raise"
    /\ ret' = Raised(Interpret(Top.response).text, "TypeError")
    /\ pc' = "ret"
    /\ UNCHANGED <<sessions, session, stack, outcome, request, nreq, counters,
                   env, history>>
    /\ UNCHANGED aux

\* lines 306-312 and 254-255: the tool is not in tools_map
DispatchToolNotFound ==
    /\ pc = "dispatch"
    /\ Interpret(Top.response).kind = "tool"
    /\ ~ToolRegistered(Top.agent, Interpret(Top.response).name)
    /\ LET act == Interpret(Top.response)
           res == HandleToolCall(Top.agent, act.name, act.arguments)
       IN  stack' = SetTop([Top EXCEPT
                   !.messages = ToolFeedback(@, Top.response, res.text)])
    /\ pc' = "loop"
    /\ UNCHANGED <<sessions, session, ret, outcome, request, nreq, counters,
                   env, history>>
    /\ UNCHANGED aux

\* variant: the tool is started and not awaited
DispatchToolDetached ==
    /\ pc = "dispatch"
    /\ Interpret(Top.response).kind = "tool"
    /\ ToolRegistered(Top.agent, Interpret(Top.response).name)
    /\ toolExecs' = toolExecs + 1
    /\ inflight' = inflight + 1
    /\ stack' = SetTop([Top EXCEPT
                   !.messages = ToolFeedback(@, Top.response, "<Task pending>")])
    /\ pc' = "loop"
    /\ UNCHANGED <<sessions, session, ret, outcome, request, calls, delegs,
                   nreq, env, history>>
    /\ UNCHANGED aux

\* lines 306-312 and 257-259: tool.execute(**arguments) is awaited
DispatchTool ==
    /\ pc = "dispatch"
    /\ Interpret(Top.response).kind = "tool"
    /\ ToolRegistered(Top.agent, Interpret(Top.response).name)
    /\ toolExecs' = toolExecs + 1
    /\ inflight' = inflight + 1
    /\ pc' = "executing"
    /\ UNCHANGED <<sessions, session, stack, ret, outcome, request, calls,
                   delegs, nreq, env, history>>
    /\ UNCHANGED aux

\* lines 259-263 and 315-317: the execution has ended, by a result or by an
\* exception
ToolReturns ==
    /\ pc = "executing"
    /\ LET act == Interpret(Top.response)
           raw == ToolExecute(act.name, act.arguments)
           res == HandleToolCall(Top.agent, act.name, act.arguments)
       IN  /\ lastExec' = [kind |-> "exec", tool |-> act.name,
                           arguments |-> act.arguments,
                           raised |-> raw.raised, text |-> raw.text,
                           handled |-> ~res.raised, result |-> res.text]
           /\ IF res.raised
              THEN /\ ret' = Raised(res.text, "tool")
                   /\ pc' = "ret"
                   /\ stack' = stack
              ELSE /\ stack' = SetTop([Top EXCEPT
                          !.messages = ToolFeedback(@, Top.response, res.text)])
                   /\ ret' = ret
                   /\ pc' = "loop"
    /\ inflight' = inflight - 1
    /\ UNCHANGED <<sessions, session, outcome, request, calls, toolExecs, delegs,
                   nreq, env, firstReply, histBefore, lastOk>>
    /\ UNCHANGED aux

\* variant: the sub-agent gets a session of its own
DispatchAgentOwnSession ==
    /\ pc = "dispatch"
    /\ Interpret(Top.response).kind = "agent"
    /\ FindSubAgent(Top.agent, Interpret(Top.response).name).found
    /\ Len(stack) < MaxDepth
    /\ LET act == Interpret(Top.response)
           sub == FindSubAgent(Top.agent, act.name)
       IN  stack' = Append(stack, NewFrame(sub.agent, act.message,
                               NewSession(sub.agent, UserId, request.sid)))
    /\ delegs' = delegs + 1
    /\ pc' = "loop"
    /\ UNCHANGED <<sessions, session, ret, outcome, request, calls, toolExecs,
                   inflight, nreq, env, history>>
    /\ UNCHANGED aux

\* lines 319-325 and 265-273: the sub-agent's loop starts on the same session
DispatchAgent ==
    /\ pc = "dispatch"
    /\ Interpret(Top.response).kind = "agent"
    /\ FindSubAgent(Top.agent, Interpret(Top.response).name).found
    /\ Len(stack) < MaxDepth
    /\ LET act == Interpret(Top.response)
           sub == FindSubAgent(Top.agent, act.name)
       IN  stack' = Append(stack, NewFrame(sub.agent, act.message, session))
    /\ delegs' = delegs + 1
    /\ pc' = "loop"
    /\ UNCHANGED <<sessions, session, ret, outcome, request, calls, toolExecs,
                   inflight, nreq, env, history>>
    /\ UNCHANGED aux

\* lines 319-330 and 265-269: no such sub-agent
DispatchAgentNotFound ==
    /\ pc = "dispatch"
    /\ Interpret(Top.response).kind = "agent"
    /\ ~FindSubAgent(Top.agent, Interpret(Top.response).name).found
    /\ stack' = SetTop([Top EXCEPT !.messages =
            AgentFeedback(@, Top.response,
                          AgentNotFoundText(Interpret(Top.response).name))])
    /\ pc' = "loop"
    /\ UNCHANGED <<sessions, session, ret, outcome, request, nreq, counters,
                   env, history>>
    /\ UNCHANGED aux

\* variant: the sub-agent's result is also recorded in the session
ReturnToParentRecords ==
    /\ pc = "ret"
    /\ Len(stack) > 1
    /\ LET parent == stack[Len(stack) - 1]
           below == SubSeq(stack, 1, Len(stack) - 2)
       IN  /\ stack' = Append(below, [parent EXCEPT !.messages =
                        AgentFeedback(@, parent.response, DelegationResult(ret))])
           /\ session' = AddMessage(session, "assistant", DelegationResult(ret))
    /\ ret' = None
    /\ pc' = "loop"
    /\ UNCHANGED <<sessions, outcome, request, nreq, counters, env, history>>
    /\ UNCHANGED aux

\* lines 271-277 and 328-330: the sub-agent's loop has ended
ReturnToParent ==
    /\ pc = "ret"
    /\ Len(stack) > 1
    /\ LET parent == stack[Len(stack) - 1]
           below == SubSeq(stack, 1, Len(stack) - 2)
       IN  IF ret.kind = "exc" /\ ~DelegationCatches(ret)
           THEN /\ stack' = Append(below, parent)
                /\ ret' = ret
                /\ pc' = "ret"
           ELSE /\ stack' = Append(below, [parent EXCEPT !.messages =
                        AgentFeedback(@, parent.response, DelegationResult(ret))])
                /\ ret' = None
                /\ pc' = "loop"
    /\ UNCHANGED <<sessions, session, outcome, request, nreq, counters, env,
                   history>>
    /\ UNCHANGED aux

\* run_async lines 370-393, routes/agent.py lines 136-181
FinishRun ==
    /\ pc = "ret"
    /\ Len(stack) = 1
    /\ ret.kind = "value"
    /\ session' = AddMessage(session, "assistant", ret.text)
    /\ outcome' = [kind |-> "response", text |-> ResponseBody(ret.text),
                   events |-> 1, session_id |-> request.sid]
    /\ lastOk' = [kind |-> "ok", sid |-> request.sid, user |-> request.message,
                  answer |-> ret.text]
    /\ stack' = <<>>
    /\ ret' = None
    /\ pc' = "idle"
    /\ UNCHANGED <<sessions, request, nreq, counters, env, firstReply,
                   histBefore, lastExec>>
    /\ UNCHANGED aux

\* variant: the error is turned into an answer
FailRunAnswers ==
    /\ pc = "ret"
    /\ Len(stack) = 1
    /\ ret.kind = "exc"
    /\ session' = AddMessage(session, "assistant", "Error: " \o ret.text)
    /\ outcome' = [kind |-> "response", text |-> "Error: " \o ret.text,
                   events |-> 1, session_id |-> request.sid]
    /\ stack' = <<>>
    /\ ret' = None
    /\ pc' = "idle"
    /\ UNCHANGED <<sessions, request, nreq, counters, env, history>>
    /\ UNCHANGED aux

\* the exception leaves run_async; routes/agent.py lines 183-187
FailRun ==
    /\ pc = "ret"
    /\ Len(stack) = 1
    /\ ret.kind = "exc"
    /\ outcome' = [kind |-> "error", status |-> 500, text |-> ret.text, events |-> 0]
    /\ stack' = <<>>
    /\ ret' = None
    /\ pc' = "idle"
    /\ UNCHANGED <<sessions, session, request, nreq, counters, env, history>>
    /\ UNCHANGED aux

Next ==
    \/ \E sid \in SessionIds, text \in UserTexts : StartRequest(sid, text)
    \/ CallGradientStart
    \/ \E r \in AllReplies : CallGradientReturns(r)
    \/ CallGradientRaises
    \/ LoopExhausted
    \/ DispatchFinal
    \/ DispatchRaises
    \/ DispatchToolNotFound
    \/ DispatchTool
    \/ ToolReturns
    \/ DispatchAgent
    \/ DispatchAgentNotFound
    \/ ReturnToParent
    \/ FinishRun
    \/ FailRun

Spec == Init /\ [][Next]_vars

-----------------------------------------------------------------------------
(* Properties *)

LastMessage(f) == f.messages[Len(f.messages)]

\* the envelope notion of the specification: a JSON object with a "tool"
\* key or an "agent" key
IsEnvelope(raw) ==
    /\ JsonLoads(raw).ok
    /\ JsonLoads(raw).type = "object"
    /\ ("tool" \in DOMAIN JsonLoads(raw).val \/ "agent" \in DOMAIN JsonLoads(raw).val)

IsToolCall(raw) ==
    /\ JsonLoads(raw).ok
    /\ JsonLoads(raw).type = "object"
    /\ "tool" \in DOMAIN JsonLoads(raw).val

\* the names in an agent's tool list
RegisteredTools(a) == {Tools(a)[i].name : i \in DOMAIN Tools(a)}

\* C1 as stated: one external call makes at most max_iterations backend
\* calls in total, the calls of the sub-agent loops it delegates to included.
C1_TotalCallsWithinCap == calls <= MaxIterations

\* C1 as amended: every invocation of the loop, top-level or delegated, makes
\* at most max_iterations backend calls of its own; a sub-agent loop has its
\* own cap, so the total of an external call is not bounded by 10.
C1_EachLoopWithinCap ==
    \A i \in DOMAIN stack : stack[i].ncalls <= MaxIterations

C1_Witness ==
    /\ calls > MaxIterations
    /\ \E i \in DOMAIN stack : stack[i].ncalls = MaxIterations

\* C2: the iteration counter of an invocation never exceeds 10; an
\* invocation whose 10 replies all were tool-call or delegation envelopes
\* has made exactly 10 backend calls of its own, makes no further one and
\* returns "Error: Maximum iterations reached" as a value.
C2_CapReached ==
    /\ [](\A i \in DOMAIN stack : stack[i].iteration <= 10)
    /\ [][(pc = "loop" /\ Top.iteration = 10)
            => /\ Top.ncalls = 10
               /\ calls' = calls
               /\ stack' = stack
               /\ pc' = "ret"
               /\ ret'.kind = "value"
               /\ ret'.text = "Error: Maximum iterations reached"]_vars

C2_Witness ==
    /\ pc = "ret"
    /\ ret.kind = "value"
    /\ ret.text = "Error: Maximum iterations reached"
    /\ Top.ncalls = 10
    /\ IsEnvelope(Top.response)

\* C3: when the first backend reply of an external call is not valid JSON,
\* the loop returns exactly that text after exactly one backend call, with
\* no tool executed and no sub-agent invoked.
C3_NonJsonFirstReply ==
    (firstReply \in Replies /\ ~JsonLoads(firstReply).ok) =>
        /\ calls = 1
        /\ toolExecs = 0
        /\ delegs = 0
        /\ pc \in {"dispatch", "ret", "idle"}
        /\ pc = "ret" => (Len(stack) = 1 /\ ret.kind = "value" /\ ret.text = firstReply)
        /\ pc = "idle" => (outcome.kind = "response" /\ outcome.text = firstReply)

C3_Witness ==
    /\ pc = "idle"
    /\ firstReply = ReplyHello
    /\ outcome.kind = "response"
    /\ outcome.text = "Hello world"

\* C4: whenever the raw reply is not a tool-call or delegation envelope
\* (JSON that is not an object included), the loop ends and returns the raw
\* text as its answer; it does not raise.
C4_NonEnvelopeIsAnswer ==
    [][(pc = "dispatch" /\ ~IsEnvelope(Top.response))
         => /\ pc' = "ret"
            /\ ret'.kind = "value"
            /\ ret'.text = Top.response]_vars

\* C5: a tool call naming an unregistered tool raises nothing and executes
\* no tool; the loop appends the raw reply as an assistant message and
\* "Tool result: Error: Tool '<name>' not found" as a user message, and is
\* back at the head of its loop with only the iteration of that backend call
\* consumed.
C5_UnregisteredTool ==
    [][(/\ pc = "dispatch"
        /\ IsToolCall(Top.response)
        /\ FieldType(JsonLoads(Top.response), "tool") = "string"
        /\ JsonLoads(Top.response).val["tool"] \notin RegisteredTools(Top.agent))
         => /\ pc' = "loop"
            /\ ret' = None
            /\ toolExecs' = toolExecs
            /\ calls' = calls
            /\ Len(stack') = Len(stack)
            /\ stack'[Len(stack)].iteration = Top.iteration
            /\ stack'[Len(stack)].messages =
                 Top.messages \o
                 << [role |-> "assistant", content |-> Top.response],
                    [role |-> "user",
                     content |-> "Tool result: Error: Tool '"
                                 \o JsonLoads(Top.response).val["tool"]
                                 \o "' not found"] >>]_vars

C5_Witness ==
    /\ pc = "loop"
    /\ Len(stack) >= 1
    /\ Top.response = ReplyBogus
    /\ Top.agent = "PointerCoordinator"
    /\ LastMessage(Top) =
         [role |-> "user", content |-> "Tool result: Error: Tool 'bogus' not found"]

\* C6: after a successful external call the stored session's history is its
\* history before the call followed by the user message and the final
\* answer.
C6_StoredHistoryGrows ==
    (pc = "idle" /\ outcome.kind = "response") =>
        sessions[SessionKey(AppName, UserId, request.sid)].history =
            histBefore \o << [role |-> "user", content |-> request.message],
                            [role |-> "assistant", content |-> lastOk.answer] >>

\* C7: the first backend call of an external call is sent the system
\* message, the session's prior history, then the new user message, which
\* occurs once, as the last element.
C7_FirstRequestSeed ==
    (pc = "loop" /\ Len(stack) = 1 /\ Top.iteration = 0) =>
        /\ Top.messages =
             << [role |-> "system", content |-> BuildSystemPrompt(RootAgent)] >>
             \o histBefore
             \o << [role |-> "user", content |-> request.message] >>
        /\ Cardinality({i \in DOMAIN Top.messages :
                Top.messages[i] = [role |-> "user", content |-> request.message]}) = 1

\* C8: the second of two successive successful calls on the same session is
\* sent the first call's user message and final answer, in that order,
\* before its own user message.
C8_SessionLivesAcrossCalls ==
    (/\ pc = "loop" /\ Len(stack) = 1 /\ Top.iteration = 0
     /\ lastOk.kind = "ok" /\ lastOk.sid = request.sid) =>
        \E i, j \in DOMAIN Top.messages :
            /\ i < j
            /\ j < Len(Top.messages)
            /\ Top.messages[i] = [role |-> "user", content |-> lastOk.user]
            /\ Top.messages[j] = [role |-> "assistant", content |-> lastOk.answer]

\* C9: a failed backend call of the top-level loop ends the external call
\* with the error handed to its caller: no retry, no further backend call or
\* tool execution, no answer text and no response event.
C9_TopLevelBackendError ==
    /\ [][(pc = "awaiting" /\ Len(stack) = 1 /\ lastReply' = BackendDown)
            => /\ pc' = "ret"
               /\ calls' = calls
               /\ Len(stack') = 1
               /\ ret'.kind = "exc"
               /\ ret'.text = BackendErrorText
               /\ toolExecs' = toolExecs]_vars
    /\ [][(pc = "ret" /\ Len(stack) = 1 /\ ret.kind = "exc" /\ ret.cause = "backend")
            => /\ pc' = "idle"
               /\ outcome'.kind = "error"
               /\ outcome'.text = BackendErrorText
               /\ outcome'.events = 0
               /\ calls' = calls
               /\ toolExecs' = toolExecs
               /\ session' = session
               /\ lastOk' = lastOk]_vars

C9_Witness ==
    /\ pc = "idle"
    /\ outcome.kind = "error"
    /\ outcome.text = BackendErrorText
    /\ outcome.events = 0
    /\ calls >= 1

-----------------------------------------------------------------------------
(* Tool errors, delegation, the session during the loop *)

\* the names of an agent's sub-agents
SubAgentNames(a) == {SubAgents(a)[i] : i \in DOMAIN SubAgents(a)}

\* a JSON object without a "tool" key and with an "agent" key
IsDelegation(raw) ==
    /\ JsonLoads(raw).ok
    /\ JsonLoads(raw).type = "object"
    /\ "tool" \notin DOMAIN JsonLoads(raw).val
    /\ "agent" \in DOMAIN JsonLoads(raw).val

\* C11: Tool.execute never lets an exception of the wrapped function reach
\* its caller: every execution ends with a returned text.
C11_ExecuteNeverRaises ==
    lastExec.kind = "exec" => ~lastExec.raised

\* C12: when the function of a registered tool raises, the loop is not
\* aborted: nothing is raised out of the tool call, the loop appends the raw
\* reply as an assistant message and "Tool result: Error executing tool:
\* <message>" as a user message, the iteration counter stays where the
\* backend call of this iteration left it, and the loop is back at its head,
\* where the next step below the cap is a backend call.
C12_ToolErrorFedBack ==
    /\ [][(/\ pc = "executing"
           /\ ToolExecute(JsonLoads(Top.response).val["tool"],
                          DictGet(JsonLoads(Top.response).val, "arguments",
                                  EmptyDict)).raised)
            => /\ pc' = "loop"
               /\ ret' = None
               /\ calls' = calls
               /\ Len(stack') = Len(stack)
               /\ stack'[Len(stack)].iteration = Top.iteration
               /\ stack'[Len(stack)].messages =
                    Top.messages \o
                    << [role |-> "assistant", content |-> Top.response],
                       [role |-> "user",
                        content |-> "Tool result: Error executing tool: "
                            \o ToolExecute(JsonLoads(Top.response).val["tool"],
                                   DictGet(JsonLoads(Top.response).val,
                                           "arguments", EmptyDict)).text] >>]_vars
    /\ [][(pc = "loop" /\ Top.iteration < MaxIterations)
            => (pc' = "awaiting" /\ calls' = calls + 1)]_vars

C12_Witness ==
    /\ pc = "loop"
    /\ Len(stack) = 2
    /\ lastExec.kind = "exec"
    /\ lastExec.raised
    /\ Top.iteration < MaxIterations
    /\ LastMessage(Top) =
         [role |-> "user",
          content |-> "Tool result: Error executing tool: rag_add() missing 2 required positional arguments: 'id' and 'text'"]

\* C13: a delegation to a name that is no sub-agent of the current agent
\* raises nothing and starts no sub-agent loop; the loop appends the raw
\* reply as an assistant message and "Sub-agent result: Error: Sub-agent
\* '<name>' not found" as a user message, and is back at the head of its
\* loop with only the iteration of that backend call consumed.
C13_UnknownSubAgent ==
    [][(/\ pc = "dispatch"
        /\ IsDelegation(Top.response)
        /\ JsonLoads(Top.response).val["agent"] \notin SubAgentNames(Top.agent))
         => /\ pc' = "loop"
            /\ ret' = None
            /\ delegs' = delegs
            /\ calls' = calls
            /\ Len(stack') = Len(stack)
            /\ stack'[Len(stack)].iteration = Top.iteration
            /\ stack'[Len(stack)].messages =
                 Top.messages \o
                 << [role |-> "assistant", content |-> Top.response],
                    [role |-> "user",
                     content |-> "Sub-agent result: Error: Sub-agent '"
                                 \o JsonLoads(Top.response).val["agent"]
                                 \o "' not found"] >>]_vars

C13_Witness ==
    /\ pc = "loop"
    /\ Len(stack) = 1
    /\ Top.response = ReplySummarizer
    /\ delegs = 0
    /\ LastMessage(Top) =
         [role |-> "user",
          content |-> "Sub-agent result: Error: Sub-agent 'Summarizer' not found"]

InLoop ==
    \/ pc \in {"loop", "awaiting", "dispatch", "executing"}
    \/ (pc = "ret" /\ Len(stack) > 1)

\* C19: within one external call at most one backend call or tool execution
\* is outstanding at any moment, in the top-level loop and in every sub-agent
\* loop nested in it; one starts only when none is outstanding.
C19_OneOutstanding ==
    /\ [](inflight <= 1)
    /\ [](inflight = 1 <=> pc \in {"awaiting", "executing"})
    /\ [][inflight' > inflight => (inflight = 0 /\ inflight' = 1)]_vars

C19_Witness ==
    /\ pc = "executing"
    /\ Len(stack) = 2
    /\ inflight = 1
    /\ toolExecs >= 2
    /\ calls >= 3

\* C20: between the entry and the return of _process_message, tool calls and
\* nested sub-agent loops included, neither the session nor the session
\* store changes: the session's history is the one user message run_async
\* added, and the raw replies, the "Tool result: ..." and the "Sub-agent
\* result: ..." messages of the working list never enter it.
C20_LoopLeavesSession ==
    /\ [][InLoop => (session' = session /\ sessions' = sessions)]_vars
    /\ [](InLoop => session.history =
                      << [role |-> "user", content |-> request.message] >>)

C20_Witness ==
    /\ pc = "loop"
    /\ Len(stack) = 1
    /\ delegs >= 1
    /\ toolExecs >= 1
    /\ Len(Top.messages) >= 5
    /\ LastMessage(Top).role = "user"
    /\ Len(session.history) = 1

-----------------------------------------------------------------------------
(* The system prompt of an agent with any tools and sub-agents *)

\* tools and sub-agents registered with one agent
MaxTools == 2
MaxSubs == 2

SeqsUpTo(S, n) == UNION {[1..k -> S] : k \in 0..n}

PoolTools == {CoordinatorTools[3], CoordinatorTools[4], CoordinatorTools[7]}
PoolSubs == {"Summarizer", "TerminalCmdGen"}

\* GradientAgent.__init__: instruction, tools or [], sub_agents or []
AgentConfig(instruction, tools, subs) ==
    [instruction |-> instruction, tools |-> tools, sub_agents |-> subs]

\* the agents of the program and agents over the pools
Configs ==
    {AgentConfig(Instruction(a), Tools(a), SubAgents(a)) : a \in AgentNames}
    \cup {AgentConfig(Instruction(a), ts, as) :
            a \in {"Summarizer", "TerminalCmdGen"},
            ts \in SeqsUpTo(PoolTools, MaxTools),
            as \in SeqsUpTo(PoolSubs, MaxSubs)}

InitPrompt ==
    /\ MainInit
    /\ cfg \in Configs
    /\ prompt = None
    /\ StoreIdle
    /\ TasksIdle
    /\ ExtIdle

\* _build_system_prompt on the agent cfg
BuildPrompt ==
    /\ cfg # None
    /\ prompt = None
    /\ prompt' = [kind |-> "prompt",
                  parts |-> PromptParts(cfg.instruction, cfg.tools, cfg.sub_agents),
                  text |-> Concat(PromptParts(cfg.instruction, cfg.tools,
                                              cfg.sub_agents))]
    /\ UNCHANGED <<main, ext, cfg, svc, oplog, lastOp, tasks>>

NextPrompt == BuildPrompt

SpecPrompt == InitPrompt /\ [][NextPrompt]_vars

\* the parts a section of n entries takes: header, entries, blank line
SectionLen(n) == IF n = 0 THEN 0 ELSE n + 2

\* C15: the system prompt is the instruction, then the tools section with
\* one "- <name>: <description>" entry for each tool of the tool list in
\* list order, then the sub-agents section with one entry for each sub-agent
\* in list order; there is no other entry, and a section with its header is
\* left out when its list is empty.
C15_PromptMatchesRegistry ==
    prompt # None =>
        LET p == prompt.parts
            nt == Len(cfg.tools)
            ns == Len(cfg.sub_agents)
            o == 1 + SectionLen(nt)
        IN  /\ Len(p) = 1 + SectionLen(nt) + SectionLen(ns)
            /\ p[1] = cfg.instruction \o "\n\n"
            /\ nt > 0 =>
                 /\ p[2] = "AVAILABLE TOOLS:\n"
                 /\ \A i \in 1..nt :
                      p[2 + i] = "- " \o cfg.tools[i].name \o ": "
                                 \o cfg.tools[i].description \o "\n"
                 /\ p[3 + nt] = "\n"
            /\ ns > 0 =>
                 /\ p[o + 1] = "AVAILABLE SUB-AGENTS:\n"
                 /\ \A j \in 1..ns :
                      p[o + 1 + j] = "- " \o cfg.sub_agents[j] \o ": "
                                     \o Description(cfg.sub_agents[j]) \o "\n"
                 /\ p[o + 2 + ns] = "\n"
            /\ cfg = AgentConfig(Instruction(RootAgent), Tools(RootAgent),
                                 SubAgents(RootAgent))
                 => prompt.text =
                      "Intelligent AI assistant with knowledge base capabilities.\n\nAVAILABLE SUB-AGENTS:\n- PointerCoordinator: Routes commands to tools.\n\n"

C15_Witness ==
    /\ prompt # None
    /\ Len(cfg.tools) = 2
    /\ cfg.tools[1] # cfg.tools[2]
    /\ cfg.sub_agents = <<>>
    /\ Len(prompt.parts) = 5

-----------------------------------------------------------------------------
(* The session store under any sequence of calls *)

\* calls made on the store in one run
MaxOps == 3

\* identifiers with and without the separator of the key
StoreApps == {"a", "a:b"}
StoreUsers == {"c", "b:c"}
StoreSids == {"d"}
StoreKeys == {SessionKey(a, u, i) : a \in StoreApps, u \in StoreUsers, i \in StoreSids}

\* self.sessions.get(key) on the dictionary itself
GetByKey(store, k) == IF k \in DOMAIN store THEN store[k] ELSE None

StoreOp(kind, app, user, sid, result) ==
    [kind |-> kind, app |-> app, user |-> user, sid |-> sid,
     key |-> SessionKey(app, user, sid), raised |-> FALSE, result |-> result]

InitStore ==
    /\ MainInit
    /\ PromptIdle
    /\ StoreIdle
    /\ TasksIdle
    /\ ExtIdle

\* session_service.create_session(app, user, sid)
StoreCreate(app, user, sid) ==
    /\ Len(oplog) < MaxOps
    /\ svc' = CreateSession(svc, app, user, sid)
    /\ lastOp' = StoreOp("create", app, user, sid,
                         CreateSession(svc, app, user, sid)[SessionKey(app, user, sid)])
    /\ oplog' = Append(oplog, StoreOp("create", app, user, sid, None))
    /\ UNCHANGED <<main, ext, cfg, prompt, tasks>>

\* session_service.get_session(app, user, sid)
StoreGet(app, user, sid) ==
    /\ Len(oplog) < MaxOps
    /\ svc' = svc
    /\ lastOp' = StoreOp("get", app, user, sid, GetSession(svc, app, user, sid))
    /\ oplog' = Append(oplog, StoreOp("get", app, user, sid, None))
    /\ UNCHANGED <<main, ext, cfg, prompt, tasks>>

\* session_service.delete_session(app, user, sid)
StoreDelete(app, user, sid) ==
    /\ Len(oplog) < MaxOps
    /\ svc' = DeleteSession(svc, app, user, sid)
    /\ lastOp' = StoreOp("delete", app, user, sid, None)
    /\ oplog' = Append(oplog, StoreOp("delete", app, user, sid, None))
    /\ UNCHANGED <<main, ext, cfg, prompt, tasks>>

\* a client adds a message to the session get_session returned
StoreAddMessage(app, user, sid) ==
    /\ Len(oplog) < MaxOps
    /\ GetSession(svc, app, user, sid) # None
    /\ svc' = [svc EXCEPT ![SessionKey(app, user, sid)] = AddMessage(@, "user", "m")]
    /\ lastOp' = StoreOp("add", app, user, sid, None)
    /\ oplog' = Append(oplog, StoreOp("add", app, user, sid, None))
    /\ UNCHANGED <<main, ext, cfg, prompt, tasks>>

NextStore ==
    \/ \E a \in StoreApps, u \in StoreUsers, i \in StoreSids : StoreCreate(a, u, i)
    \/ \E a \in StoreApps, u \in StoreUsers, i \in StoreSids : StoreGet(a, u, i)
    \/ \E a \in StoreApps, u \in StoreUsers, i \in StoreSids : StoreDelete(a, u, i)
    \/ \E a \in StoreApps, u \in StoreUsers, i \in StoreSids : StoreAddMessage(a, u, i)

SpecStore == InitStore /\ [][NextStore]_vars

\* what the calls of a log leave at key k: the session of the latest create
\* at k that no later delete at k removed, with the messages added since
RECURSIVE Replay(_, _)
Replay(k, log) ==
    IF log = <<>> THEN None
    ELSE LET before == Replay(k, SubSeq(log, 1, Len(log) - 1))
             op == log[Len(log)]
         IN  IF op.key # k THEN before
             ELSE IF op.kind = "create" THEN NewSession(op.app, op.user, op.sid)
             ELSE IF op.kind = "delete" THEN None
             ELSE IF op.kind = "add" /\ before # None
                  THEN AddMessage(before, "user", "m")
             ELSE before

\* C16: over any sequence of calls, create at key k leaves at k a fresh
\* session with empty history whatever was there; get at k returns the
\* session of the latest create at k not since deleted, or nothing; get and
\* delete at a key without entry raise nothing and leave the store as it
\* is; no call changes the entry of a key other than its own.
C16_StoreOperations ==
    /\ [](\A k \in StoreKeys \cup DOMAIN svc : GetByKey(svc, k) = Replay(k, oplog))
    /\ [](lastOp.kind = "create" =>
            svc[lastOp.key] = [session_id |-> lastOp.sid, user_id |-> lastOp.user,
                               app_name |-> lastOp.app, history |-> <<>>])
    /\ [](lastOp.kind = "get" => lastOp.result = Replay(lastOp.key, oplog))
    /\ [](lastOp.kind \in {"create", "get", "delete"} => ~lastOp.raised)
    /\ [][(oplog' # oplog /\ lastOp'.kind \in {"get", "delete"}
           /\ lastOp'.key \notin DOMAIN svc) => svc' = svc]_vars
    /\ [][oplog' # oplog =>
            \A k \in (DOMAIN svc \cup DOMAIN svc') \ {lastOp'.key} :
                GetByKey(svc', k) = GetByKey(svc, k)]_vars

C16_Witness ==
    /\ Len(oplog) = 3
    /\ oplog[1].kind = "create"
    /\ oplog[2].kind = "add"
    /\ oplog[3].kind = "create"
    /\ oplog[1].key = oplog[3].key
    /\ oplog[2].key = oplog[3].key
    /\ svc[lastOp.key].history = <<>>
    /\ Cardinality(DOMAIN svc) = 1

\* C17: a session is identified by its triple (app_name, user_id,
\* session_id): what get returns for a triple is a session created for that
\* very triple, never the session of another triple.
C17_TriplesIdentifySessions ==
    (lastOp.kind = "get" /\ lastOp.result # None)
        => /\ lastOp.result.app_name = lastOp.app
           /\ lastOp.result.user_id = lastOp.user
           /\ lastOp.result.session_id = lastOp.sid

-----------------------------------------------------------------------------
(* Two external calls on one session key, interleaved at their awaits *)

TaskIds == {1, 2}
SharedSid == "s1"

\* process_agent_request has not started
NewTask(text) ==
    [pc |-> "new", text |-> text, local |-> None, iteration |-> 0, answer |-> ""]

InitConcurrent ==
    /\ MainInit
    /\ PromptIdle
    /\ svc = EmptyStore
    /\ oplog = <<>>
    /\ lastOp = None
    /\ tasks \in [TaskIds -> {NewTask(text) : text \in UserTexts}]
    /\ ExtIdle

\* variant: the session is created without looking for it first
TaskRouteCreates(t) ==
    /\ tasks[t].pc = "new"
    /\ svc' = CreateSession(svc, AppName, UserId, SharedSid)
    /\ oplog' = Append(oplog, StoreOp("create", AppName, UserId, SharedSid,
                                      NewSession(AppName, UserId, SharedSid)))
    /\ tasks' = [tasks EXCEPT ![t].pc = "routed"]
    /\ UNCHANGED <<main, ext, cfg, prompt, lastOp>>

\* routes/agent.py lines 81-92: get the stored session or create it; oplog
\* records the calls of create_session; the next suspension is at line 111
\* or inside run_async
TaskRoute(t) ==
    /\ tasks[t].pc = "new"
    /\ IF GetSession(svc, AppName, UserId, SharedSid) = None
       THEN /\ svc' = CreateSession(svc, AppName, UserId, SharedSid)
            /\ oplog' = Append(oplog, StoreOp("create", AppName, UserId, SharedSid,
                                              NewSession(AppName, UserId, SharedSid)))
       ELSE /\ svc' = svc
            /\ oplog' = oplog
    /\ tasks' = [tasks EXCEPT ![t].pc = "routed"]
    /\ UNCHANGED <<main, ext, cfg, prompt, lastOp>>

\* run_async lines 351-370 up to the first await of _call_gradient
TaskRunStart(t) ==
    /\ tasks[t].pc = "routed"
    /\ tasks' = [tasks EXCEPT
            ![t].local = AddMessage(RunSession(svc, RootAgent, UserId, SharedSid),
                                    "user", MessageText(tasks[t].text)),
            ![t].iteration = 1,
            ![t].pc = "awaiting"]
    /\ UNCHANGED <<main, ext, cfg, prompt, svc, oplog, lastOp>>

\* the backend answers one task; a tool call or a delegation is worked off
\* on the task's own message list and the loop goes on, a final answer or
\* the cap ends the loop and run_async adds the answer (line 373)
TaskBackendReturns(t, r) ==
    /\ tasks[t].pc = "awaiting"
    /\ Interpret(r).kind # "raise"
    /\ IF Interpret(r).kind = "final"
       THEN tasks' = [tasks EXCEPT
                ![t].local = AddMessage(@, "assistant", r),
                ![t].answer = r,
                ![t].pc = "done"]
       ELSE IF LoopGuard(tasks[t].iteration)
       THEN tasks' = [tasks EXCEPT ![t].iteration = @ + 1]
       ELSE tasks' = [tasks EXCEPT
                ![t].local = AddMessage(@, "assistant", MaxIterationsText),
                ![t].answer = MaxIterationsText,
                ![t].pc = "done"]
    /\ UNCHANGED <<main, ext, cfg, prompt, svc, oplog, lastOp>>

\* the backend call raises, or the reply makes the loop raise: HTTP 500
TaskFails(t) ==
    /\ tasks[t].pc = "awaiting"
    /\ tasks' = [tasks EXCEPT ![t].pc = "failed"]
    /\ UNCHANGED <<main, ext, cfg, prompt, svc, oplog, lastOp>>

NextConcurrent ==
    \/ \E t \in TaskIds : TaskRoute(t)
    \/ \E t \in TaskIds : TaskRunStart(t)
    \/ \E t \in TaskIds, r \in Replies : TaskBackendReturns(t, r)
    \/ \E t \in TaskIds : TaskFails(t)

SpecConcurrent == InitConcurrent /\ [][NextConcurrent]_vars

\* C18: when two external calls on the same session key have both answered,
\* the history of the session at that key holds, for each call, the call's
\* user message immediately followed by the call's answer.
C18_PairsInStoredHistory ==
    (tasks # <<>> /\ \A t \in TaskIds : tasks[t].pc = "done")
        => LET h == svc[SessionKey(AppName, UserId, SharedSid)].history
           IN  \A t \in TaskIds :
                 \E i \in 1..(Len(h) - 1) :
                    /\ h[i] = [role |-> "user", content |-> MessageText(tasks[t].text)]
                    /\ h[i + 1] = [role |-> "assistant", content |-> tasks[t].answer]

-----------------------------------------------------------------------------
(* Replies that are JSON objects of unusual shape *)

InitEnvelopes ==
    /\ MainInit
    /\ PromptIdle
    /\ StoreIdle
    /\ TasksIdle
    /\ replySet = EnvelopeReplies
    /\ PureIdle
    /\ ReloadIdle
    /\ StoresIdle

SpecEnvelopes == InitEnvelopes /\ [][Next]_vars

\* C24: an external call in which no backend call failed answers with
\* text; the only fault the caller sees is a backend error, whatever the
\* JSON types of the fields of a reply.
C24_OnlyBackendErrorsAbort ==
    outcome.kind = "error" => outcome.text = BackendErrorText

\* a JSON object with neither a "tool" nor an "agent" key
IsPlainObject(raw) ==
    /\ JsonLoads(raw).ok
    /\ JsonLoads(raw).type = "object"
    /\ "tool" \notin DOMAIN JsonLoads(raw).val
    /\ "agent" \notin DOMAIN JsonLoads(raw).val

\* C28: a reply that is a JSON object with neither a "tool" nor an "agent"
\* key ends the loop: the loop returns the raw text as received, no tool is
\* executed and no sub-agent loop started; at top level that text is the
\* body of the response.
C28_PlainObjectIsAnswer ==
    /\ [][(pc = "dispatch" /\ IsPlainObject(Top.response))
            => /\ pc' = "ret"
               /\ ret' = [kind |-> "value", text |-> Top.response, cause |-> "final"]
               /\ toolExecs' = toolExecs
               /\ delegs' = delegs
               /\ stack' = stack]_vars
    /\ [][(pc = "ret" /\ Len(stack) = 1 /\ ret.kind = "value"
           /\ IsPlainObject(stack[1].response) /\ ret.cause = "final")
            => /\ pc' = "idle"
               /\ outcome'.kind = "response"
               /\ outcome'.text = stack[1].response]_vars

C28_Witness ==
    /\ pc = "idle"
    /\ outcome.kind = "response"
    /\ outcome.text = "{\"answer\":\"hi\"}"
    /\ toolExecs = 0
    /\ delegs = 0

\* C29: an object with both a "tool" and an "agent" key is a tool call and
\* starts no sub-agent loop in that iteration; a tool call without
\* "arguments" executes the tool with an empty argument mapping; a
\* delegation without "message" gives the sub-agent the empty string as its
\* user message.
C29_EnvelopeDefaults ==
    /\ [][(/\ pc = "dispatch"
           /\ IsToolCall(Top.response)
           /\ "agent" \in DOMAIN JsonLoads(Top.response).val
           /\ FieldType(JsonLoads(Top.response), "tool") = "string")
            => /\ delegs' = delegs
               /\ Len(stack') = Len(stack)
               /\ IF JsonLoads(Top.response).val["tool"] \in RegisteredTools(Top.agent)
                  THEN pc' = "executing" /\ toolExecs' = toolExecs + 1
                  ELSE /\ pc' = "loop"
                       /\ toolExecs' = toolExecs
                       /\ LastMessage(stack'[Len(stack')]).content =
                            "Tool result: Error: Tool '"
                            \o JsonLoads(Top.response).val["tool"] \o "' not found"]_vars
    /\ [][(pc = "executing" /\ "arguments" \notin DOMAIN JsonLoads(Top.response).val)
            => /\ lastExec'.tool = JsonLoads(Top.response).val["tool"]
               /\ DOMAIN lastExec'.arguments = {}]_vars
    /\ [][(/\ pc = "dispatch"
           /\ IsDelegation(Top.response)
           /\ "message" \notin DOMAIN JsonLoads(Top.response).val
           /\ JsonLoads(Top.response).val["agent"] \in SubAgentNames(Top.agent))
            => /\ Len(stack') = Len(stack) + 1
               /\ stack'[Len(stack')].agent = JsonLoads(Top.response).val["agent"]
               /\ LastMessage(stack'[Len(stack')]) =
                    [role |-> "user", content |-> ""]]_vars

C29_Witness ==
    /\ pc = "loop"
    /\ Len(stack) = 2
    /\ Top.response = ReplyBoth
    /\ delegs = 1
    /\ lastExec.kind = "exec"
    /\ lastExec.tool = "rag_query"
    /\ DOMAIN lastExec.arguments = {}

-----------------------------------------------------------------------------
(* The session object and the working list during one external call *)

\* C25: the session's history is changed only after the loop has returned;
\* when an external call has ended with an error, the session's history is
\* what it was before the call.
C25_SessionUntouchedOnAbort ==
    (pc = "idle" /\ outcome.kind = "error") => session.history = histBefore

IsPrefix(s, t) == Len(s) <= Len(t) /\ SubSeq(t, 1, Len(s)) = s

\* C26: the list sent on a backend call after the first of an invocation is
\* the list sent on the call before, then an assistant message with the raw
\* text of the reply to that call, then a user message with the tool's or
\* sub-agent's result; the lists of the active invocations only grow at
\* their end, and the system message is the single first element.
C26_WorkingListAppendOnly ==
    /\ [][(pc = "loop" /\ pc' = "awaiting" /\ Top.ncalls >= 1)
            => LET now == stack'[Len(stack')].sent
               IN  /\ Len(now) = Len(Top.sent) + 2
                   /\ SubSeq(now, 1, Len(Top.sent)) = Top.sent
                   /\ now[Len(now) - 1] = Message("assistant", Top.response)
                   /\ now[Len(now)].role = "user"
                   /\ now[1] = Message("system", BuildSystemPrompt(Top.agent))
                   /\ \A i \in 2..Len(now) : now[i].role # "system"]_vars
    /\ [][\A i \in 1..Len(stack) :
            i <= Len(stack') => IsPrefix(stack[i].messages, stack'[i].messages)]_vars
    /\ [][(pc = "executing" /\ pc' = "loop")
            => LastMessage(stack'[Len(stack')]).content =
                 "Tool result: " \o lastExec'.result]_vars
    /\ [][(pc = "ret" /\ pc' = "loop")
            => LastMessage(stack'[Len(stack')]).content =
                 "Sub-agent result: " \o DelegationResult(ret)]_vars

C26_Witness ==
    /\ pc = "awaiting"
    /\ Top.ncalls = 3
    /\ Len(Top.sent) = Len(SeedMessages(Top.agent, request.message, session)) + 4
    /\ Top.sent[Len(Top.sent) - 3] = Message("assistant", ReplyRagQuery)
    /\ Top.sent[Len(Top.sent) - 1] = Message("assistant", ReplyBogus)

-----------------------------------------------------------------------------
(* Termination of an external call *)

\* every step of an external call after its start: awaited coroutines that
\* return are resumed by the event loop
LoopStep ==
    \/ CallGradientStart
    \/ \E r \in AllReplies : CallGradientReturns(r)
    \/ CallGradientRaises
    \/ LoopExhausted
    \/ DispatchFinal
    \/ DispatchRaises
    \/ DispatchToolNotFound
    \/ DispatchTool
    \/ ToolReturns
    \/ DispatchAgent
    \/ DispatchAgentNotFound
    \/ ReturnToParent
    \/ FinishRun
    \/ FailRun

\* replies of every kind the loop tells apart
LiveReplies ==
    {ReplyHello, ReplyCoordinator, ReplySummarizer, ReplyRagQuery, ReplyNumber}

\* one external call is followed from its start to its end
InitLive ==
    /\ RunIdle
    /\ nreq = MaxRequests - 1
    /\ PromptIdle
    /\ StoreIdle
    /\ TasksIdle
    /\ replySet = LiveReplies
    /\ PureIdle
    /\ ReloadIdle
    /\ StoresIdle

SpecLive == InitLive /\ [][Next]_vars /\ WF_vars(LoopStep)

Max(S) == CHOOSE x \in S : \A y \in S : y <= x

\* the number of agents on the longest chain of sub-agent references that
\* starts at a and names no agent twice
RECURSIVE LongestChain(_, _)
LongestChain(a, visited) ==
    LET next == {SubAgents(a)[i] : i \in DOMAIN SubAgents(a)} \ (visited \cup {a})
    IN  IF next = {} THEN 1
        ELSE 1 + Max({LongestChain(b, visited \cup {a}) : b \in next})

GraphHeight == LongestChain(RootAgent, {})

\* C27: the nesting of active loops never exceeds the height of the
\* sub-agent graph, no loop makes more than 10 iterations, and every
\* external call that has started eventually returns, given that every
\* backend call and every tool execution returns.
C27_ExternalCallReturns ==
    /\ [](Len(stack) <= GraphHeight)
    /\ [](\A i \in 1..Len(stack) :
            stack[i].iteration <= MaxIterations /\ stack[i].ncalls <= MaxIterations)
    /\ ((pc # "idle") ~> (pc = "idle"))

C27_Witness ==
    /\ Len(stack) = GraphHeight
    /\ Top.iteration = MaxIterations
    /\ pc = "loop"

-----------------------------------------------------------------------------
(* Reloading the dynamically loaded tools *)

MaxReloads == 2

InitReload ==
    /\ MainInit
    /\ PromptIdle
    /\ StoreIdle
    /\ TasksIdle
    /\ ExtIdle

\* reload_tadata_integration_async, lines 196-207, up to its only
\* suspension: the configuration is read again and the client emptied; with
\* no server configured the function runs on to its end
ReloadBegin(servers) ==
    /\ reload.pc = "idle"
    /\ reload.done < MaxReloads
    /\ IF servers # {}
       THEN /\ reload' = [reload EXCEPT !.pc = "connecting", !.servers = servers,
                                        !.tools = <<>>, !.connected = FALSE,
                                        !.before = coordTools,
                                        !.last = reload.tools,
                                        !.lastServers = reload.servers]
            /\ UNCHANGED <<coordTools, lists>>
       ELSE /\ reload' = [reload EXCEPT !.servers = servers, !.tools = <<>>,
                                        !.connected = FALSE,
                                        !.before = coordTools, !.done = @ + 1,
                                        !.last = reload.tools,
                                        !.lastServers = reload.servers]
            /\ coordTools' = RemoveDynamic(coordTools)
            /\ lists' = Append(lists, RemoveDynamic(coordTools))
    /\ UNCHANGED <<main, cfg, prompt, svc, oplog, lastOp, tasks>>
    /\ UNCHANGED <<replySet, fnIn, fnOut, coordMap, seen, docs, table, conn>>

\* variant: the function is suspended between removing the old tools and
\* adding the new ones
ReloadConnectedYields(ok, named) ==
    /\ reload.pc = "connecting"
    /\ LET fetched == IF ~ok THEN <<>>
                      ELSE IF named THEN FetchedTools(reload.servers)
                      ELSE FetchedOwnNames(reload.servers)
       IN  /\ reload' = [reload EXCEPT !.pc = "idle", !.tools = fetched,
                                       !.connected = ok, !.done = @ + 1]
           /\ coordTools' = RemoveDynamic(coordTools)
           /\ lists' = Append(lists, RemoveDynamic(coordTools) \o fetched)
    /\ UNCHANGED <<main, cfg, prompt, svc, oplog, lastOp, tasks>>
    /\ UNCHANGED <<replySet, fnIn, fnOut, coordMap, seen, docs, table, conn>>

\* lines 207-226 after the suspension: _connect_all has the servers' tools
\* or has failed (lines 148-151); the tools carry the names the
\* Coordinator's instruction uses or names of the servers' own choosing;
\* Coordinator.tools is assigned the filtered
\* list and extended with the client's tools with no await in between
ReloadConnected(ok, named) ==
    /\ reload.pc = "connecting"
    /\ LET fetched == IF ~ok THEN <<>>
                      ELSE IF named THEN FetchedTools(reload.servers)
                      ELSE FetchedOwnNames(reload.servers)
       IN  /\ reload' = [reload EXCEPT !.pc = "idle", !.tools = fetched,
                                       !.connected = ok, !.done = @ + 1]
           /\ coordTools' = RemoveDynamic(coordTools) \o fetched
           /\ lists' = Append(lists, RemoveDynamic(coordTools) \o fetched)
    /\ UNCHANGED <<main, cfg, prompt, svc, oplog, lastOp, tasks>>
    /\ UNCHANGED <<replySet, fnIn, fnOut, coordMap, seen, docs, table, conn>>

\* gradient_agent.py line 176: a loop call of the Coordinator that is in
\* flight reads Coordinator.tools
ObserveTools ==
    /\ seen # coordTools
    /\ seen' = coordTools
    /\ UNCHANGED <<main, cfg, prompt, svc, oplog, lastOp, tasks>>
    /\ UNCHANGED <<replySet, fnIn, fnOut, coordTools, coordMap, reload, lists,
                   docs, table, conn>>

NextReload ==
    \/ \E servers \in SUBSET Servers : ReloadBegin(servers)
    \/ \E ok, named \in BOOLEAN : ReloadConnected(ok, named)
    \/ ObserveTools

SpecReload == InitReload /\ [][NextReload]_vars

ToolNames(ts) == {ts[i].name : i \in DOMAIN ts}

\* C21: wherever another task can run, Coordinator.tools is the whole list
\* from before the reload or the whole list after it: the list before while
\* the reload waits for the servers, afterwards that list without the tools
\* that name a server followed by the tools the client holds; a loop call
\* in flight has read one of these lists.
C21_ReloadAtomic ==
    /\ reload.pc = "connecting" => coordTools = reload.before
    /\ (reload.pc = "idle" /\ reload.done > 0)
         => coordTools = RemoveDynamic(reload.before) \o reload.tools
    /\ seen # <<>> => \E i \in DOMAIN lists : seen = lists[i]

C21_Witness ==
    /\ reload.pc = "connecting"
    /\ reload.done = 1
    /\ seen = coordTools
    /\ "notion_notion-search" \in ToolNames(coordTools)
    /\ "exa" \in reload.servers

\* C30: the names of the tools the Coordinator advertises are the names it
\* can dispatch.
C30_AdvertisedIsDispatchable == ToolNames(coordTools) = coordMap

-----------------------------------------------------------------------------
(* _call_gradient: the request sent to the backend *)

MaxMessages == 3

\* model names: the one every agent of the program is built with, the
\* constructor's default, and two of the messages-style backend
ModelNames ==
    {"openai-gpt-oss-120b", "alibaba-qwen3-32b",
     "anthropic-claude-3.7-sonnet", "claude-3-5-haiku"}

\* __init__, line 144: model.startswith("anthropic-") or
\* model.startswith("claude-")
IsAnthropic(model) == model \in {"anthropic-claude-3.7-sonnet", "claude-3-5-haiku"}

\* __init__, lines 150-153 and 156-158: the model name that is sent
SentModel(model) ==
    IF model = "anthropic-claude-3.7-sonnet" THEN "claude-3-7-sonnet-20241022"
    ELSE model

\* __init__, lines 147 and 157
ApiUrl(model) ==
    IF IsAnthropic(model) THEN "https://api.anthropic.com/v1/messages"
    ELSE "https://inference.do-ai.run/v1/chat/completions"

MaxTokens == 2000

\* the messages a list is made of: a system prompt as _build_system_prompt
\* builds it, a user message, an assistant message
MessagePool ==
    {Message("system", BuildSystemPrompt("Summarizer")),
     Message("user", "hello"),
     Message("assistant", "Hello!")}

IsSystem(m) == m.role = "system"
NotSystem(m) == m.role # "system"

\* lists with at most one system message, at any position
MessageLists ==
    {ms \in SeqsUpTo(MessagePool, MaxMessages) :
        Cardinality({i \in DOMAIN ms : IsSystem(ms[i])}) <= 1}

\* variant: the array keeps every message
AnthropicMessagesAll(messages) == messages

\* lines 196-203: the else branch of the loop over messages
AnthropicMessages(messages) == SelectSeq(messages, NotSystem)

\* lines 193, 197-198: the content of the last system message, None if
\* there is none
RECURSIVE SystemMessage(_)
SystemMessage(messages) ==
    IF messages = <<>> THEN None
    ELSE IF IsSystem(messages[Len(messages)])
         THEN [kind |-> "text", text |-> messages[Len(messages)].content]
         ELSE SystemMessage(SubSeq(messages, 1, Len(messages) - 1))

\* line 211: if system_message
Truthy(system) == system # None /\ system.text # ""

\* lines 205-222 and 232-236: the JSON body of the request
RequestBody(model, messages) ==
    IF IsAnthropic(model)
    THEN IF Truthy(SystemMessage(messages))
         THEN [model |-> SentModel(model),
               messages |-> AnthropicMessages(messages),
               max_tokens |-> MaxTokens,
               system |-> SystemMessage(messages).text]
         ELSE [model |-> SentModel(model),
               messages |-> AnthropicMessages(messages),
               max_tokens |-> MaxTokens]
    ELSE [model |-> SentModel(model), messages |-> messages,
          max_tokens |-> MaxTokens]

InitAdapter ==
    /\ MainInit
    /\ PromptIdle
    /\ StoreIdle
    /\ TasksIdle
    /\ replySet = Replies
    /\ fnIn \in {[kind |-> "messages", model |-> model, messages |-> ms] :
                    model \in ModelNames, ms \in MessageLists}
    /\ fnOut = None
    /\ ReloadIdle
    /\ StoresIdle

\* _call_gradient up to client.post
PostRequest ==
    /\ fnOut = None
    /\ fnOut' = [kind |-> "request", url |-> ApiUrl(fnIn.model),
                 body |-> RequestBody(fnIn.model, fnIn.messages)]
    /\ UNCHANGED <<main, cfg, prompt, svc, oplog, lastOp, tasks>>
    /\ UNCHANGED <<replySet, fnIn, coordTools, coordMap, reload, seen, lists,
                   docs, table, conn>>

NextAdapter == PostRequest

SpecAdapter == InitAdapter /\ [][NextAdapter]_vars

\* the messages of a list that are not system messages, in order
RECURSIVE NonSystemOf(_)
NonSystemOf(ms) ==
    IF ms = <<>> THEN <<>>
    ELSE IF Head(ms).role = "system" THEN NonSystemOf(Tail(ms))
         ELSE <<Head(ms)>> \o NonSystemOf(Tail(ms))

\* C22: in the messages-style variant the request's messages array is the
\* input list without its system message, in the input's order, and the
\* system message's content is the top-level field system, which is absent
\* when the list has no system message; in the generic variant the array is
\* the input list as it is and there is no field system.
C22_RequestShaping ==
    fnOut.kind = "request" =>
        IF IsAnthropic(fnIn.model)
        THEN /\ fnOut.body.messages = NonSystemOf(fnIn.messages)
             /\ \A i \in DOMAIN fnIn.messages :
                    fnIn.messages[i].role = "system" =>
                        /\ "system" \in DOMAIN fnOut.body
                        /\ fnOut.body.system = fnIn.messages[i].content
             /\ (\A i \in DOMAIN fnIn.messages : fnIn.messages[i].role # "system")
                    => "system" \notin DOMAIN fnOut.body
        ELSE /\ fnOut.body.messages = fnIn.messages
             /\ "system" \notin DOMAIN fnOut.body

C22_Witness ==
    /\ fnOut.kind = "request"
    /\ fnIn.model = "claude-3-5-haiku"
    /\ Len(fnIn.messages) = 3
    /\ fnIn.messages[2].role = "system"
    /\ Len(fnOut.body.messages) = 2
    /\ "system" \in DOMAIN fnOut.body

-----------------------------------------------------------------------------
(* Tool.to_function_definition: the schema derived from a function *)

MaxParams == 2

ParamNames == {"self", "query", "k"}

\* what a parameter can be annotated with: a type, the text of a type (its
\* annotation under postponed evaluation), or nothing
Annotations == {"int", "bool", "float", "str", "dict", "'int'", "empty"}

Params ==
    [name : ParamNames, annotation : Annotations, hasDefault : BOOLEAN]

\* inspect.signature(func).parameters: parameters in order, names distinct
Signatures ==
    {sig \in SeqsUpTo(Params, MaxParams) :
        \A i, j \in DOMAIN sig : i # j => sig[i].name # sig[j].name}

\* variant: every parameter is a string
ParamTypeString(annotation) == "string"

\* lines 100-107
ParamType(annotation) ==
    CASE annotation = "int" -> "integer"
      [] annotation = "bool" -> "boolean"
      [] annotation = "float" -> "number"
      [] OTHER -> "string"

\* lines 98-99: a parameter named self is passed over
Listed(sig) == SelectSeq(sig, LAMBDA p : p.name # "self")

\* lines 109-112
Properties(sig) ==
    [n \in {Listed(sig)[i].name : i \in DOMAIN Listed(sig)} |->
        LET p == CHOOSE q \in {Listed(sig)[i] : i \in DOMAIN Listed(sig)} : q.name = n
        IN  [type |-> ParamType(p.annotation),
             description |-> "Parameter " \o n]]

\* lines 114-115: names in the order of the signature
RECURSIVE RequiredNames(_)
RequiredNames(sig) ==
    IF sig = <<>> THEN <<>>
    ELSE IF Head(sig).name = "self" \/ Head(sig).hasDefault
         THEN RequiredNames(Tail(sig))
         ELSE <<Head(sig).name>> \o RequiredNames(Tail(sig))

\* lines 86-121
ToFunctionDefinition(name, description, sig) ==
    [kind |-> "definition", name |-> name, description |-> description,
     parameters |-> [type |-> "object",
                     properties |-> Properties(sig),
                     required |-> RequiredNames(sig)]]

InitSchema ==
    /\ MainInit
    /\ PromptIdle
    /\ StoreIdle
    /\ TasksIdle
    /\ replySet = Replies
    /\ fnIn \in {[kind |-> "tool", name |-> "rag_query",
                   description |-> "Query the knowledge base", sig |-> sig] :
                    sig \in Signatures}
    /\ fnOut = None
    /\ ReloadIdle
    /\ StoresIdle

\* tool.to_function_definition()
DeriveSchema ==
    /\ fnOut = None
    /\ fnOut' = ToFunctionDefinition(fnIn.name, fnIn.description, fnIn.sig)
    /\ UNCHANGED <<main, cfg, prompt, svc, oplog, lastOp, tasks>>
    /\ UNCHANGED <<replySet, fnIn, coordTools, coordMap, reload, seen, lists,
                   docs, table, conn>>

NextSchema == DeriveSchema

SpecSchema == InitSchema /\ [][NextSchema]_vars

\* the schema's entry for each of the given parameters
EntriesFor(ps) ==
    \A p \in ps :
        /\ p.name \in DOMAIN fnOut.parameters.properties
        /\ fnOut.parameters.properties[p.name].type =
             (IF p.annotation = "int" THEN "integer"
              ELSE IF p.annotation = "bool" THEN "boolean"
              ELSE IF p.annotation = "float" THEN "number"
              ELSE "string")
        /\ (\E i \in DOMAIN fnOut.parameters.required :
                fnOut.parameters.required[i] = p.name) <=> ~p.hasDefault

\* C23 as stated: the schema has one entry per parameter of the function,
\* required exactly when the parameter has no default, of type integer,
\* boolean or number for int, bool or float and string otherwise.
C23_EntryPerParameter ==
    fnOut.kind = "definition" =>
        /\ DOMAIN fnOut.parameters.properties =
             {fnIn.sig[i].name : i \in DOMAIN fnIn.sig}
        /\ EntriesFor({fnIn.sig[i] : i \in DOMAIN fnIn.sig})

\* C23, amended: the schema has one entry per parameter of the function
\* other than a parameter named self, which has none; an entry is required
\* exactly when its parameter has no default and its type is integer,
\* boolean or number for int, bool or float and string otherwise.
C23_EntryPerParameterButSelf ==
    fnOut.kind = "definition" =>
        /\ DOMAIN fnOut.parameters.properties =
             {fnIn.sig[i].name : i \in DOMAIN fnIn.sig} \ {"self"}
        /\ \A i \in DOMAIN fnOut.parameters.required :
                fnOut.parameters.required[i] # "self"
        /\ EntriesFor({fnIn.sig[i] : i \in DOMAIN fnIn.sig} \
                        {p \in Params : p.name = "self"})

C23_Witness ==
    /\ fnOut.kind = "definition"
    /\ Len(fnIn.sig) = 2
    /\ fnIn.sig[1] = [name |-> "self", annotation |-> "empty", hasDefault |-> FALSE]
    /\ fnIn.sig[2] = [name |-> "k", annotation |-> "int", hasDefault |-> TRUE]
    /\ DOMAIN fnOut.parameters.properties = {"k"}
    /\ fnOut.parameters.properties["k"].type = "integer"
    /\ fnOut.parameters.required = <<>>

-----------------------------------------------------------------------------
(* What a reload keeps and what it adds *)

\* the tools of a list that the Coordinator was constructed with, in the
\* list's order
ConstructedIn(ts) ==
    SelectSeq(ts, LAMBDA t : \E i \in DOMAIN CoordinatorTools : CoordinatorTools[i] = t)

\* C31: every tool the Coordinator was constructed with is in its tool
\* list, in the order of construction, after any number of reloads.
C31_ConstructedToolsKept == ConstructedIn(coordTools) = CoordinatorTools

NoDuplicates(ts) == \A i, j \in DOMAIN ts : i # j => ts[i].name # ts[j].name

\* C32: a reload against the servers of the reload before it, which return
\* the tools they returned then, leaves Coordinator.tools as that reload
\* left it, with no tool in it twice.
C32_ReloadIdempotent ==
    (/\ reload.pc = "idle"
     /\ reload.done >= 2
     /\ reload.servers = reload.lastServers
     /\ reload.tools = reload.last)
        => /\ coordTools = reload.before
           /\ NoDuplicates(coordTools)

-----------------------------------------------------------------------------
(* Concurrent requests and the stored session *)

SharedKey == SessionKey(AppName, UserId, SharedSid)

\* C35: over all interleavings of the requests that carry one session id,
\* create_session is called for the key at most once, and a session that is
\* in the store is neither created again nor changed by a request's entry.
C35_SessionCreatedOnce ==
    /\ [](Cardinality({i \in DOMAIN oplog :
                oplog[i].kind = "create" /\ oplog[i].key = SharedKey}) <= 1)
    /\ [][(SharedKey \in DOMAIN svc)
            => (/\ SharedKey \in DOMAIN svc'
                /\ svc'[SharedKey] = svc[SharedKey]
                /\ oplog' = oplog)]_vars

C35_Witness ==
    /\ tasks # <<>>
    /\ \A t \in TaskIds : tasks[t].pc \in {"awaiting", "done"}
    /\ Len(oplog) = 1
    /\ SharedKey \in DOMAIN svc

-----------------------------------------------------------------------------
(* tools/rag.py: TinyStore, the documents in memory and in the database *)

DocIds == {"a", "b"}
DocTexts == {"first", "second"}

Doc(id, text) == [id |-> id, text |-> text]

\* INSERT OR REPLACE INTO documents: id is the primary key
InsertOrReplace(rows, id, text) ==
    [k \in DOMAIN rows \cup {id} |-> IF k = id THEN text ELSE rows[k]]

\* DELETE FROM documents WHERE id = ?
DeleteRow(rows, id) == [k \in DOMAIN rows \ {id} |-> rows[k]]

KbOp(kind, id, text) == [kind |-> kind, id |-> id, text |-> text]

InitDocs ==
    /\ MainInit
    /\ PromptIdle
    /\ StoreIdle
    /\ TasksIdle
    /\ ExtIdle

\* TinyStore.add, lines 148-177
KbAdd(id, text) ==
    /\ Len(oplog) < MaxOps
    /\ docs' = Append(docs, Doc(id, text))
    /\ table' = InsertOrReplace(table, id, text)
    /\ oplog' = Append(oplog, KbOp("add", id, text))
    /\ UNCHANGED <<main, cfg, prompt, svc, lastOp, tasks>>
    /\ UNCHANGED <<replySet, fnIn, fnOut, coordTools, coordMap, reload, seen,
                   lists, conn>>

\* TinyStore.delete, lines 179-191
KbDelete(id) ==
    /\ Len(oplog) < MaxOps
    /\ docs' = SelectSeq(docs, LAMBDA d : d.id # id)
    /\ table' = DeleteRow(table, id)
    /\ oplog' = Append(oplog, KbOp("delete", id, ""))
    /\ UNCHANGED <<main, cfg, prompt, svc, lastOp, tasks>>
    /\ UNCHANGED <<replySet, fnIn, fnOut, coordTools, coordMap, reload, seen,
                   lists, conn>>

\* TinyStore.clear, lines 225-232
KbClear ==
    /\ Len(oplog) < MaxOps
    /\ docs' = <<>>
    /\ table' = EmptyStore
    /\ oplog' = Append(oplog, KbOp("clear", "", ""))
    /\ UNCHANGED <<main, cfg, prompt, svc, lastOp, tasks>>
    /\ UNCHANGED <<replySet, fnIn, fnOut, coordTools, coordMap, reload, seen,
                   lists, conn>>

NextDocs ==
    \/ \E id \in DocIds, text \in DocTexts : KbAdd(id, text)
    \/ \E id \in DocIds : KbDelete(id)
    \/ KbClear

SpecDocs == InitDocs /\ [][NextDocs]_vars

\* C38: the documents in memory and the rows of the table have the same
\* ids, no id is in memory twice, and each document in memory has the text
\* of its row.
C38_MemoryMatchesTable ==
    /\ {docs[i].id : i \in DOMAIN docs} = DOMAIN table
    /\ \A i, j \in DOMAIN docs : i # j => docs[i].id # docs[j].id
    /\ \A i \in DOMAIN docs : docs[i].text = table[docs[i].id]

-----------------------------------------------------------------------------
(* cloudflare_client.py: build_cloudflare_context *)

MaxMatches == 3

\* matches of a memory search: with text, with empty text, without a text
\* field
MatchPool ==
    {[id |-> "m1", text |-> "alpha"], [id |-> "m2", text |-> "beta"],
     [id |-> "m3", text |-> ""], [id |-> "m4"]}

\* what search_memory does: it raises, or it returns data.get("matches", [])
SearchOutcomes ==
    {[ok |-> FALSE, matches |-> <<>>]}
    \cup {[ok |-> TRUE, matches |-> ms] : ms \in SeqsUpTo(MatchPool, MaxMatches)}

\* line 137: m.get("text") is truthy
HasText(m) == "text" \in DOMAIN m /\ m.text # ""

\* line 137: [m["text"] for m in matches if m.get("text")]
RECURSIVE Chunks(_)
Chunks(matches) ==
    IF matches = <<>> THEN <<>>
    ELSE IF HasText(Head(matches))
         THEN <<Head(matches).text>> \o Chunks(Tail(matches))
         ELSE Chunks(Tail(matches))

\* sep.join(chunks)
RECURSIVE Join(_, _)
Join(sep, chunks) ==
    IF chunks = <<>> THEN ""
    ELSE IF Len(chunks) = 1 THEN chunks[1]
    ELSE chunks[1] \o sep \o Join(sep, Tail(chunks))

\* lines 139-144
ContextText(context) ==
    "Relevant context from memory:\n" \o context \o "\n---\n"
    \o "Use the above context to inform your response if relevant.\n"

\* lines 129-147: build_cloudflare_context
BuildCloudflareContext(enabled, search) ==
    IF ~enabled THEN ""
    ELSE IF ~search.ok THEN ""
    ELSE IF search.matches = <<>> THEN ""
    ELSE ContextText(Join("\n---\n", Chunks(search.matches)))

InitContext ==
    /\ MainInit
    /\ PromptIdle
    /\ StoreIdle
    /\ TasksIdle
    /\ replySet = Replies
    /\ fnIn \in {[kind |-> "query", enabled |-> e, search |-> o] :
                    e \in BOOLEAN, o \in SearchOutcomes}
    /\ fnOut = None
    /\ ReloadIdle
    /\ StoresIdle

\* build_cloudflare_context(query)
BuildContext ==
    /\ fnOut = None
    /\ fnOut' = [kind |-> "returned",
                 text |-> BuildCloudflareContext(fnIn.enabled, fnIn.search)]
    /\ UNCHANGED <<main, cfg, prompt, svc, oplog, lastOp, tasks>>
    /\ UNCHANGED <<replySet, fnIn, coordTools, coordMap, reload, seen, lists,
                   docs, table, conn>>

NextContext == BuildContext

SpecContext == InitContext /\ [][NextContext]_vars

\* C36: the function returns a non-empty context exactly when the
\* integration is enabled, the search succeeded and at least one match has
\* a non-empty text; in every other case it returns the empty string.
C36_EmptyWithoutText ==
    fnOut.kind = "returned" =>
        (fnOut.text # "" <=>
            /\ fnIn.enabled
            /\ fnIn.search.ok
            /\ \E i \in DOMAIN fnIn.search.matches :
                    "text" \in DOMAIN fnIn.search.matches[i]
                    /\ fnIn.search.matches[i].text # "")

-----------------------------------------------------------------------------
(* cloudflare_client.py: stream_chat *)

MaxLines == 3

\* lines of an event stream: data lines, the end marker bare and with
\* blanks around it, a comment line and the blank line between events
StreamLines ==
    {"data: hello", "data: world", "data: [DONE]", "data:  [DONE] ", ": ping", ""}

\* line 69: line.startswith("data: ")
HasDataPrefix(line) ==
    line \in {"data: hello", "data: world", "data: [DONE]", "data:  [DONE] "}

\* line 70: line[6:]
Payload(line) ==
    CASE line = "data: hello" -> "hello"
      [] line = "data: world" -> "world"
      [] line = "data: [DONE]" -> "[DONE]"
      [] line = "data:  [DONE] " -> " [DONE] "

\* str.strip() on a payload
StripPayload(data) == IF data = " [DONE] " THEN "[DONE]" ELSE data

\* variant: no payload ends the stream
IsDoneNever(data) == FALSE

\* line 71: data.strip() == "[DONE]"
IsDone(data) == StripPayload(data) = "[DONE]"

\* the generator has sent the request and waits for the first line
StreamOpen == [kind |-> "stream", pos |-> 1, yielded |-> <<>>, ended |-> FALSE]

InitStream ==
    /\ MainInit
    /\ PromptIdle
    /\ StoreIdle
    /\ TasksIdle
    /\ replySet = Replies
    /\ fnIn \in {[kind |-> "lines", lines |-> ls] :
                    ls \in SeqsUpTo(StreamLines, MaxLines)}
    /\ fnOut = StreamOpen
    /\ ReloadIdle
    /\ StoresIdle

\* lines 68-73: one line of the response arrives
StreamLine ==
    /\ fnOut.kind = "stream"
    /\ ~fnOut.ended
    /\ fnOut.pos <= Len(fnIn.lines)
    /\ LET line == fnIn.lines[fnOut.pos]
       IN  fnOut' =
             IF ~HasDataPrefix(line)
             THEN [fnOut EXCEPT !.pos = @ + 1]
             ELSE IF IsDone(Payload(line))
             THEN [fnOut EXCEPT !.pos = @ + 1, !.ended = TRUE]
             ELSE [fnOut EXCEPT !.pos = @ + 1,
                                !.yielded = Append(@, Payload(line))]
    /\ UNCHANGED <<main, cfg, prompt, svc, oplog, lastOp, tasks>>
    /\ UNCHANGED <<replySet, fnIn, coordTools, coordMap, reload, seen, lists,
                   docs, table, conn>>

\* line 68: the response has no more lines
StreamExhausted ==
    /\ fnOut.kind = "stream"
    /\ ~fnOut.ended
    /\ fnOut.pos > Len(fnIn.lines)
    /\ fnOut' = [fnOut EXCEPT !.ended = TRUE]
    /\ UNCHANGED <<main, cfg, prompt, svc, oplog, lastOp, tasks>>
    /\ UNCHANGED <<replySet, fnIn, coordTools, coordMap, reload, seen, lists,
                   docs, table, conn>>

NextStream == StreamLine \/ StreamExhausted

SpecStream == InitStream /\ [][NextStream]_vars

\* the payloads of the data lines before the first line whose payload is
\* the end marker as it stands
RECURSIVE UpToMarker(_)
UpToMarker(lines) ==
    IF lines = <<>> THEN <<>>
    ELSE IF ~HasDataPrefix(Head(lines)) THEN UpToMarker(Tail(lines))
    ELSE IF Payload(Head(lines)) = "[DONE]" THEN <<>>
    ELSE <<Payload(Head(lines))>> \o UpToMarker(Tail(lines))

\* the payloads of the data lines before the first line whose payload is
\* the end marker with or without blanks around it
RECURSIVE UpToPaddedMarker(_)
UpToPaddedMarker(lines) ==
    IF lines = <<>> THEN <<>>
    ELSE IF ~HasDataPrefix(Head(lines)) THEN UpToPaddedMarker(Tail(lines))
    ELSE IF Payload(Head(lines)) \in {"[DONE]", " [DONE] "} THEN <<>>
    ELSE <<Payload(Head(lines))>> \o UpToPaddedMarker(Tail(lines))

\* C37 as stated: when the stream has ended, what was yielded is the
\* payloads of the data lines, in order, before the first line whose
\* payload is "[DONE]".
C37_YieldsUpToMarker ==
    (fnOut.kind = "stream" /\ fnOut.ended) => fnOut.yielded = UpToMarker(fnIn.lines)

\* C37, amended: when the stream has ended, what was yielded is the
\* payloads of the data lines, in order, before the first line whose
\* payload is "[DONE]" once the blanks around it are removed; while it runs,
\* what was yielded is a prefix of that.
C37_YieldsUpToPaddedMarker ==
    /\ (fnOut.kind = "stream" /\ fnOut.ended)
            => fnOut.yielded = UpToPaddedMarker(fnIn.lines)
    /\ (fnOut.kind = "stream" /\ ~fnOut.ended)
            => fnOut.yielded = UpToPaddedMarker(SubSeq(fnIn.lines, 1, fnOut.pos - 1))

C37_Witness ==
    /\ fnOut.kind = "stream"
    /\ fnOut.ended
    /\ fnIn.lines = <<"data: hello", "data:  [DONE] ", "data: world">>
    /\ fnOut.yielded = <<"hello">>
    /\ fnOut.pos = 3

-----------------------------------------------------------------------------
(* tools/tadata.py: the connection state of the client *)

Probes == 1..MaxProbes

InitConnect ==
    /\ MainInit
    /\ PromptIdle
    /\ StoreIdle
    /\ TasksIdle
    /\ replySet = Replies
    /\ fnIn = None
    /\ fnOut = None
    /\ ReloadIdle
    /\ docs = <<>>
    /\ table = EmptyStore
    /\ conn \in {[ConnNew EXCEPT !.servers = s] : s \in SUBSET Servers}

NoFetchInFlight == \A t \in DOMAIN conn.callers : conn.callers[t] # "fetching"

\* ensure_connected and _connect_all up to the await of get_tools, run by
\* task t on client c: a connected client or one without servers is left
\* alone, otherwise a MultiServerMCPClient is made and its fetch begins
Connecting(c, t) ==
    IF ~c.connected /\ c.servers # {}
    THEN [c EXCEPT !.hasClient = TRUE, !.fetches = @ + 1,
                   !.callers[t] = "fetching"]
    ELSE [c EXCEPT !.callers[t] = "done"]

\* reload_tadata_integration_async, lines 201-207: reload() re-reads the
\* servers and drops client, tools and flag; ensure_connected follows when
\* servers are configured
ConnReload(servers) ==
    /\ conn.reloads < MaxReloads
    /\ NoFetchInFlight
    /\ conn' = Connecting([conn EXCEPT !.servers = servers, !.hasClient = FALSE,
                                       !.tools = <<>>, !.connected = FALSE,
                                       !.fetches = 0, !.reloads = @ + 1,
                                       !.callers[0] = "idle"], 0)
    /\ UNCHANGED <<main, cfg, prompt, svc, oplog, lastOp, tasks>>
    /\ UNCHANGED <<replySet, fnIn, fnOut, coordTools, coordMap, reload, seen,
                   lists, docs, table>>

\* main.py lines 181-182: a request to /api/debug/test-tadata, once the
\* start-up reload is over
EnsureConnected(t) ==
    /\ t \in Probes
    /\ conn.reloads >= 1
    /\ conn.callers[0] # "fetching"
    /\ conn.callers[t] = "idle"
    /\ conn' = Connecting(conn, t)
    /\ UNCHANGED <<main, cfg, prompt, svc, oplog, lastOp, tasks>>
    /\ UNCHANGED <<replySet, fnIn, fnOut, coordTools, coordMap, reload, seen,
                   lists, docs, table>>

\* variant: the flag is set after the try statement, whatever happened in it
ConnectReturnsFlagAlways(t, ok) ==
    /\ conn.callers[t] = "fetching"
    /\ conn' = IF ok
               THEN [conn EXCEPT !.tools = FetchedTools(conn.servers),
                                 !.connected = TRUE, !.callers[t] = "done"]
               ELSE [conn EXCEPT !.connected = TRUE, !.callers[t] = "failed"]
    /\ UNCHANGED <<main, cfg, prompt, svc, oplog, lastOp, tasks>>
    /\ UNCHANGED <<replySet, fnIn, fnOut, coordTools, coordMap, reload, seen,
                   lists, docs, table>>

\* _connect_all, lines 103-157: get_tools returns or raises in task t
ConnectReturns(t, ok) ==
    /\ conn.callers[t] = "fetching"
    /\ conn' = IF ok
               THEN [conn EXCEPT !.tools = FetchedTools(conn.servers),
                                 !.connected = TRUE, !.callers[t] = "done"]
               ELSE [conn EXCEPT !.callers[t] = "failed"]
    /\ UNCHANGED <<main, cfg, prompt, svc, oplog, lastOp, tasks>>
    /\ UNCHANGED <<replySet, fnIn, fnOut, coordTools, coordMap, reload, seen,
                   lists, docs, table>>

NextConnect ==
    \/ \E servers \in SUBSET Servers : ConnReload(servers)
    \/ \E t \in Probes : EnsureConnected(t)
    \/ \E t \in 0..MaxProbes, ok \in BOOLEAN : ConnectReturns(t, ok)

SpecConnect == InitConnect /\ [][NextConnect]_vars

\* C33: at no time are two tasks connecting: at most one task has made an
\* MCP client and waits for its tool list, the others wait for that result.
C33_ConnectsOnce ==
    Cardinality({t \in DOMAIN conn.callers : conn.callers[t] = "fetching"}) <= 1

\* a step in which a connection attempt fails
AttemptFails ==
    \E t \in DOMAIN conn.callers :
        conn.callers[t] = "fetching" /\ conn'.callers[t] = "failed"

\* a step in which a task calls ensure_connected on a connected client
CallsWhenConnected ==
    \E t \in Probes :
        conn.connected /\ conn.callers[t] = "idle" /\ conn'.callers[t] # "idle"

====
